---- MODULE Spec2Model ----
(***************************************************************************)
(* A model of the turn-execution and dispatch core of the interactive      *)
(* fiction agent: Dialogue (models/dialogue), BaseWorkflow.run             *)
(* (workflows/base), WorkflowRunner (runner), BaseAgent.processMessage     *)
(* (agents/base), the usage total of AgentOrchestrator and of the          *)
(* AgentBasedWorkflow that owns it, the summary of runWorkflows (index),   *)
(* the cost calculation, the clock readings around runAll(), the retry     *)
(* loop of SimpleAIAgent.run, the objects the runs of a WorkflowRunner     *)
(* work on, the batches of runAgents, AgentRunner.run (runners/agent) and  *)
(* the memory store of MemoryAgent.  Each component has its own            *)
(* specification over its own variables; the variables of the other        *)
(* components stay at their initial values.                                *)
(*                                                                         *)
(* JavaScript strings are sequences of one-character strings, so that the  *)
(* regular expressions of the source are computed character by character.  *)
(***************************************************************************)
EXTENDS Integers, Sequences, FiniteSets, TLC

(***************************************************************************)
(* Bounds of the model.                                                    *)
(***************************************************************************)
MaxLimit == 3
MaxAppends == 4
MaxIterations == 3
MaxWorkflows == 4
MaxCalls == 2

MaxReports == 2

MaxQueries == 2

MaxResults == 2

\* The bits of the significand of a number (53 in the source's doubles).
MantissaBits == 8

(***************************************************************************)
(* JavaScript values and strings.                                          *)
(***************************************************************************)
Str(cs) == [type |-> "string", val |-> cs]
Num(n) == [type |-> "number", val |-> n]

DigitChars == <<"0", "1", "2", "3", "4", "5", "6", "7", "8", "9">>

IsDigit(c) == \E k \in 1..10 : DigitChars[k] = c

DigitVal(c) == (CHOOSE k \in 1..10 : DigitChars[k] = c) - 1

RECURSIVE NatToChars(_)
NatToChars(n) ==
  IF n < 10 THEN <<DigitChars[n + 1]>>
  ELSE NatToChars(n \div 10) \o <<DigitChars[(n % 10) + 1]>>

\* JSON.stringify of a value that is not a string: a number is written in
\* decimal, a string value is written between double quotes.
JSONStringify(v) ==
  IF v.type = "number" THEN NatToChars(v.val)
  ELSE <<"\"">> \o v.val \o <<"\"">>

\* A faulty variant of MessageContent: a string is stringified as well.
MessageContentAlwaysStringified(content) == JSONStringify(content)

\* typeof content === "string" ? content : JSON.stringify(content)
MessageContent(content) ==
  IF content.type = "string" THEN content.val ELSE JSONStringify(content)

UpperChars == <<"A", "B", "C", "D", "E", "F", "G", "H", "I", "J", "K", "L", "M",
                "N", "O", "P", "Q", "R", "S", "T", "U", "V", "W", "X", "Y", "Z">>

LowerChars == <<"a", "b", "c", "d", "e", "f", "g", "h", "i", "j", "k", "l", "m",
                "n", "o", "p", "q", "r", "s", "t", "u", "v", "w", "x", "y", "z">>

\* The case folding of the /i flag on one character.
FoldCase(c) ==
  IF \E k \in 1..26 : UpperChars[k] = c
    THEN LowerChars[CHOOSE k \in 1..26 : UpperChars[k] = c]
    ELSE c

\* \s of a regular expression.
IsSpace(c) == c \in {" ", "\t", "\n"}

\* The literal pat (given in lower case) occurs in t at position p, ignoring case.
LiteralAt(t, p, pat) ==
  /\ p + Len(pat) - 1 <= Len(t)
  /\ \A k \in 1..Len(pat) : FoldCase(t[p + k - 1]) = pat[k]

\* /pat/i.test(t) for a literal pattern.
RegexTest(pat, t) == \E p \in 1..Len(t) : LiteralAt(t, p, pat)

RECURSIVE SkipSpaces(_, _)
SkipSpaces(t, p) ==
  IF p <= Len(t) /\ IsSpace(t[p]) THEN SkipSpaces(t, p + 1) ELSE p

RECURSIVE DigitRun(_, _)
DigitRun(t, p) ==
  IF p <= Len(t) /\ IsDigit(t[p]) THEN <<t[p]>> \o DigitRun(t, p + 1) ELSE <<>>

\* parseInt(digits, 10) of a non-empty run of decimal digits.
RECURSIVE ParseInt(_)
ParseInt(ds) ==
  IF Len(ds) = 0 THEN 0
  ELSE 10 * ParseInt(SubSeq(ds, 1, Len(ds) - 1)) + DigitVal(ds[Len(ds)])

\* The positions where /key\s*(\d+)/i matches t: the key, any white space, then
\* at least one digit.
CounterMatches(key, t) ==
  {p \in 1..Len(t) :
     /\ LiteralAt(t, p, key)
     /\ DigitRun(t, SkipSpaces(t, p + Len(key))) # <<>>}

\* t.match(/key\s*(\d+)/i): whether it matched, and parseInt of group 1 of the
\* leftmost match.
CounterMatch(key, t) ==
  LET ps == CounterMatches(key, t)
  IN  IF ps = {} THEN [matched |-> FALSE, value |-> 0]
      ELSE LET p == CHOOSE q \in ps : \A r \in ps : q <= r
           IN  [matched |-> TRUE,
                value |-> ParseInt(DigitRun(t, SkipSpaces(t, p + Len(key))))]

(***************************************************************************)
(* Dialogue.  A message is [role, content, toolCallId, toolName]; the      *)
(* tool-result part of a tool message is flattened into the message, and   *)
(* the two tool fields are empty for the other roles.                      *)
(***************************************************************************)
NoTool == <<>>

Message(role, content) ==
  [role |-> role, content |-> content, toolCallId |-> NoTool, toolName |-> NoTool]

ToolMessage(toolCallId, toolName, result) ==
  [role |-> "tool", content |-> result, toolCallId |-> toolCallId, toolName |-> toolName]

\* A faulty variant of trimMessages: drops from the end (the newest) instead of the start.
TrimMessagesDropNewest(msgs, lim) ==
  IF Len(msgs) > lim
    THEN SubSeq(msgs, 1, IF lim < 0 THEN 0 ELSE lim)
    ELSE msgs

\* A faulty variant of trimMessages: an off-by-one comparison and count.
TrimMessagesOffByOne(msgs, lim) ==
  IF Len(msgs) > lim + 1
    THEN SubSeq(msgs, Len(msgs) - lim, Len(msgs))
    ELSE msgs

\* A faulty variant of trimMessages: a leading system message is never removed.
TrimMessagesKeepsSystem(msgs, lim) ==
  IF Len(msgs) > lim
    THEN IF msgs[1].role = "system" /\ lim >= 1
           THEN <<msgs[1]>> \o SubSeq(msgs, Len(msgs) - lim + 2, Len(msgs))
           ELSE SubSeq(msgs, Len(msgs) - lim + 1, Len(msgs))
    ELSE msgs

\* splice(0, length - limit) when length > limit: removes the first
\* length - limit messages (all of them when that count exceeds the length).
TrimMessages(msgs, lim) ==
  IF Len(msgs) > lim
    THEN LET n == Len(msgs) - lim
             removed == IF n > Len(msgs) THEN Len(msgs) ELSE n
         IN  SubSeq(msgs, removed + 1, Len(msgs))
    ELSE msgs

NewDialogue(lim) == [messages |-> <<>>, limit |-> lim]

Push(d, m) == [d EXCEPT !.messages = TrimMessages(Append(d.messages, m), d.limit)]

\* A faulty variant of DialogueUser: the message is not stored.
DialogueUserDropped(d, content) == d

DialogueUser(d, content) == Push(d, Message("user", MessageContent(content)))

\* A faulty variant of DialogueAssistant: the message is stored as a user message.
DialogueAssistantAsUser(d, content) == Push(d, Message("user", MessageContent(content)))

DialogueAssistant(d, content) == Push(d, Message("assistant", MessageContent(content)))

DialogueSystem(d, content) == Push(d, Message("system", MessageContent(content)))

DialogueTool(d, toolCallId, toolName, result) ==
  Push(d, ToolMessage(toolCallId, toolName, MessageContent(result)))

(***************************************************************************)
(* Texts of the game session.                                              *)
(***************************************************************************)
\* "West of House": no counter, no termination phrase.
TextWest == <<"W", "e", "s", "t", " ", "o", "f", " ", "H", "o", "u", "s", "e">>

\* "Score: 10 Moves: 7"
TextScoreMoves ==
  <<"S", "c", "o", "r", "e", ":", " ", "1", "0", " ", "M", "o", "v", "e", "s", ":", " ", "7">>

\* "moves:3"
TextMovesOnly == <<"m", "o", "v", "e", "s", ":", "3">>

\* "You have DIED"
TextDied == <<"Y", "o", "u", " ", "h", "a", "v", "e", " ", "D", "I", "E", "D">>

\* "Game Over Score: 25"
TextOver ==
  <<"G", "a", "m", "e", " ", "O", "v", "e", "r", " ", "S", "c", "o", "r", "e", ":", " ", "2", "5">>

GameTexts == {TextWest, TextScoreMoves, TextMovesOnly, TextDied, TextOver}

Verbose == <<"v", "e", "r", "b", "o", "s", "e">>

Look == <<"l", "o", "o", "k">>

North == <<"n">>

Commands == {Look, North}

GamePath == <<"z", "o", "r", "k", "1", ".", "z", "3">>

\* The session id the game API gives out, and the sentinel of a failed start.
SessionId == <<"s", "1">>

NoSession == <<>>

\* `Error: Failed to start game "${gameName}". Please try again.`
StartErrorText(gameName) ==
  <<"E", "r", "r", "o", "r", ":", " ", "F", "a", "i", "l", "e", "d", " ", "t", "o", " ",
    "s", "t", "a", "r", "t", " ", "g", "a", "m", "e", " ", "\"">>
  \o gameName
  \o <<"\"", ".", " ", "P", "l", "e", "a", "s", "e", " ", "t", "r", "y", " ",
       "a", "g", "a", "i", "n", ".">>

\* `Error: Failed to send command "${command}" to the game. Please try again.`
CommandErrorText(cmd) ==
  <<"E", "r", "r", "o", "r", ":", " ", "F", "a", "i", "l", "e", "d", " ", "t", "o", " ",
    "s", "e", "n", "d", " ", "c", "o", "m", "m", "a", "n", "d", " ", "\"">>
  \o cmd
  \o <<"\"", " ", "t", "o", " ", "t", "h", "e", " ", "g", "a", "m", "e", ".", " ",
       "P", "l", "e", "a", "s", "e", " ", "t", "r", "y", " ", "a", "g", "a", "i", "n", ".">>

\* What startGame can return: the session of the API, or the error payload of
\* its catch block.
StartGameResults(gameName) ==
  {[text |-> t, sessionId |-> SessionId] : t \in GameTexts}
    \cup {[text |-> StartErrorText(gameName), sessionId |-> NoSession]}

\* What sendCommand can return: the output of the API, or the error payload of
\* its catch block (always, when there is no session).
SendCommandResults(sid, cmd) ==
  (IF sid = NoSession THEN {} ELSE GameTexts) \cup {CommandErrorText(cmd)}

\* gameEndPatterns, in lower case.
GameEndPatterns ==
  << <<"y", "o", "u", " ", "h", "a", "v", "e", " ", "d", "i", "e", "d">>,
     <<"g", "a", "m", "e", " ", "o", "v", "e", "r">>,
     <<"t", "h", "e", " ", "e", "n", "d">>,
     <<"y", "o", "u", " ", "h", "a", "v", "e", " ", "w", "o", "n">>,
     <<"t", "h", "a", "n", "k", "s", " ", "f", "o", "r", " ", "p", "l", "a", "y", "i", "n", "g">> >>

\* Every text the session can return.
SessionTexts ==
  GameTexts \cup {StartErrorText(GamePath)}
    \cup {CommandErrorText(c) : c \in Commands \cup {Verbose}}

\* gameEndPatterns.some((pattern) => pattern.test(text))
SomePatternMatches(t) ==
  \E k \in 1..Len(GameEndPatterns) : RegexTest(GameEndPatterns[k], t)

\* SomePatternMatches, computed once for each text of the session.
GameEndedOf == [t \in SessionTexts |-> SomePatternMatches(t)]

GameEnded(t) == GameEndedOf[t]

ScoreKey == <<"s", "c", "o", "r", "e", ":">>

MovesKey == <<"m", "o", "v", "e", "s", ":">>

\* text.match(/Score:\s*(\d+)/i) and text.match(/Moves:\s*(\d+)/i), computed once
\* for each text of the session.
ScoreMatchOf == [t \in SessionTexts |-> CounterMatch(ScoreKey, t)]

MovesMatchOf == [t \in SessionTexts |-> CounterMatch(MovesKey, t)]

\* if (scoreMatch) score = parseInt(scoreMatch[1], 10)
ExtractScore(t, old) ==
  LET m == ScoreMatchOf[t] IN IF m.matched THEN m.value ELSE old

\* if (movesMatch) moves = parseInt(movesMatch[1], 10)
ExtractMoves(t, old) ==
  LET m == MovesMatchOf[t] IN IF m.matched THEN m.value ELSE old

(***************************************************************************)
(* State.                                                                  *)
(***************************************************************************)
VARIABLES
  \* A Dialogue object under arbitrary appends.
  dlg,            \* the Dialogue: [messages, limit]
  appended,       \* history: every message appended to dlg, in append order
  \* One BaseWorkflow.run().
  pc,             \* where run() stands
  maxIterations,  \* this.maxIterations
  dialogueLimit,  \* this.dialogueLimit
  sessionId,      \* the session id startGame returned
  initialText,    \* initialGameState.text
  text,           \* the local text
  dialogue,       \* the local dialogue
  score,          \* the local score
  moves,          \* the local moves
  gameEnded,      \* the local gameEnded
  i,              \* the loop counter
  command,        \* the command gameLoop returned
  result,         \* what run() returned
  commandsSent,   \* history: the commands given to sendCommand, in order
  responses,      \* history: the texts sendCommand returned in the turn loop
  decisions,      \* history: the number of gameLoop calls that returned
  thrown,         \* history: the step of the try block that threw, if any
  \* One WorkflowRunner.runAll().
  rpc,            \* where runAll() stands
  numWorkflows,   \* this.workflows.length; workflow k is named k
  parallel,       \* this.options.parallel
  maxConcurrent,  \* this.options.maxConcurrent
  promises,       \* the promise of runWorkflow(workflows[k]), for each k
  results,        \* the local results of runSequential and of runParallel
  cursor,         \* the loop position: the workflow awaited, or the batch start i
  returned,       \* the array runAll() resolved to
  startOrder,     \* history: the workflows in the order they were started
  finishOrder,    \* history: the workflows in the order their runs ended
  outcomes,       \* history: how the run of each workflow ended
  \* One BaseAgent and its processMessage calls.
  apc,            \* where processMessage stands
  agentDialogue,  \* this.dialogue
  tools,          \* the names of this.tools
  modelUsage,     \* this.modelUsage: model id -> usage
  tool,           \* the tool found for the decision
  reply,          \* what the last processMessage call returned
  path,           \* history: how the last processMessage call ended
  turn,           \* history: the messages the current call appended
  calls,          \* history: the number of processMessage calls
  generations,    \* history: the number of generation calls that returned
  executions,     \* history: the number of tool handler calls
  usages,         \* history: the usage each returned generation call reported
  atCall,         \* history: the counters when the current call began
  decision,       \* history: response.action of the decision of the current call
  \* One AgentOrchestrator and its five specialised agents.
  modelOf,        \* the model id of each agent
  usageOf,        \* this.modelUsage of each agent
  queried,        \* what the last getTotalTokenUsage() returned
  previous,       \* history: what the query before the last returned
  queries,        \* history: the number of getTotalTokenUsage() calls
  accrued,        \* history: the sum of the usages each agent reported
  reports,        \* history: the number of usages reported
  workflowUsage,  \* this.modelUsage of the AgentBasedWorkflow that owns the orchestrator
  \* The summary of main() over the results of runner.runAll().
  mpc,            \* where main stands
  mresults,       \* results
  bestByScore,
  mostEfficient,
  fastest,
  mostTokenEfficient,
  mostCostEfficient,
  \* The cost calculation of an agent or a workflow.
  cpc,            \* where the caller stands
  costUsage,      \* this.modelUsage, in insertion order: <<[modelName, usage]>>
  costed,         \* the last calculateCost call: its arguments and its result
  totalCost,      \* what the last calculateTotalCost() returned
  \* The clock readings of runWorkflows and of the runWorkflow calls of one runAll().
  tpc,            \* where runWorkflows and runAll() stand
  durations,      \* how long the run of each workflow takes
  timedParallel,  \* this.options.parallel
  timedMaxConcurrent, \* this.options.maxConcurrent
  clock,          \* what Date.now() returns
  startTime,      \* the local startTime of runWorkflow, for each workflow
  executionTimeMs, \* executionTimeMs of the result of each workflow
  batchStart,     \* the loop position: the workflow awaited, or the batch start i
  mainStartTime,  \* the local startTime of runWorkflows
  totalTime,      \* the local totalTime of runWorkflows
  waited,         \* history: the clock ticks during which no run was under way
  \* One SimpleAIAgent.run().
  spc,            \* where run() stands
  agentMaxIterations, \* this.maxIterations
  iterationCount, \* the local iterationCount
  gameOver,       \* this.gameOver
  lastError,      \* history: the error of the last generateText call, if it failed
  delayMs,        \* history: the delay given to the last setTimeout
  attempts,       \* history: the number of generateText calls
  ended,          \* history: how run() ended
  \* The objects of the runs of one WorkflowRunner.
  given,          \* this.workflows: the workflow objects of the caller, by identity
  heap,           \* the workflow objects: identity -> [logPath, logger, tracked]
  runs,           \* the runWorkflow call of each position of this.workflows
  nextObject,     \* the identity the next new object gets
  nextSession,    \* the session id the game API gives out next
  dialogueUsers,  \* history: the runs that appended to each Dialogue object
  sessionUsers,   \* history: the runs that sent a command under each session id
  \* One runAgents call.
  gpc,            \* position of runAgents
  numAgents,      \* agents.length
  agentsMaxConcurrent, \* the parameter maxConcurrent of runAgents
  agentsIndex,    \* the local i of runAgents
  agentRun,       \* the promise of agent.run() of each agent
  runCount,       \* history: the number of times each agent's run() was called
  \* One AgentRunner.run().
  npc,            \* position of run()
  interactive,    \* this.options.interactive
  runnerMaxIterations, \* this.options.maxIterations
  iterations,     \* the local iterations of runAutonomous
  gameStarted,    \* the gameStarted field of the game agent
  inAuto,         \* runAutonomous was called from runInteractive
  inputsRead,     \* history: the number of lines read from the user
  stoppedBy,      \* history: why the last autonomous loop stopped
  agentResult,    \* the AgentResult run() returned
  \* One MemoryAgent under add_memory calls.
  maxMemories,    \* this.maxMemories
  memories,       \* this.memories: entries [id, importance]
  memoryCounter,  \* this.memoryCounter
  lastAdded,      \* history: the entry the last addMemory made
  lastEvicted     \* history: the entries the last addMemory removed

dvars == <<dlg, appended>>

avars == <<apc, agentDialogue, tools, modelUsage, tool, reply, path, turn, calls,
           generations, executions, usages, atCall, decision>>

rvars == <<rpc, numWorkflows, parallel, maxConcurrent, promises, results, cursor,
           returned, startOrder, finishOrder, outcomes>>

wvars == <<pc, maxIterations, dialogueLimit, sessionId, initialText, text, dialogue,
           score, moves, gameEnded, i, command, result, commandsSent, responses,
           decisions, thrown>>

ovars == <<modelOf, usageOf, queried, previous, queries, accrued, reports,
           workflowUsage>>

mvars == <<mpc, mresults, bestByScore, mostEfficient, fastest, mostTokenEfficient,
           mostCostEfficient>>

cvars == <<cpc, costUsage, costed, totalCost>>

tvars == <<tpc, durations, timedParallel, timedMaxConcurrent, clock, startTime,
           executionTimeMs, batchStart, mainStartTime, totalTime, waited>>

svars == <<spc, agentMaxIterations, iterationCount, gameOver, lastError, delayMs,
           attempts, ended>>

ivars == <<given, heap, runs, nextObject, nextSession, dialogueUsers, sessionUsers>>

gvars == <<gpc, numAgents, agentsMaxConcurrent, agentsIndex, agentRun, runCount>>

nvars == <<npc, interactive, runnerMaxIterations, iterations, gameStarted, inAuto,
           inputsRead, stoppedBy, agentResult>>

evars == <<maxMemories, memories, memoryCounter, lastAdded, lastEvicted>>

vars == <<dvars, wvars, rvars, avars, ovars, mvars, cvars, tvars, svars, ivars,
          gvars, nvars, evars>>

NoDialogue == NewDialogue(0)

NoResult == [score |-> 0, moves |-> 0, gameEnded |-> FALSE, returned |-> FALSE]

DIdle ==
  /\ dlg = NewDialogue(0)
  /\ appended = <<>>

WIdle ==
  /\ pc = "idle"
  /\ maxIterations = 0
  /\ dialogueLimit = 0
  /\ sessionId = NoSession
  /\ initialText = <<>>
  /\ text = <<>>
  /\ dialogue = NoDialogue
  /\ score = 0
  /\ moves = 0
  /\ gameEnded = FALSE
  /\ i = 0
  /\ command = <<>>
  /\ result = NoResult
  /\ commandsSent = <<>>
  /\ responses = <<>>
  /\ decisions = 0
  /\ thrown = "none"

RIdle ==
  /\ rpc = "idle"
  /\ numWorkflows = 0
  /\ parallel = FALSE
  /\ maxConcurrent = 0
  /\ promises = <<>>
  /\ results = <<>>
  /\ cursor = 0
  /\ returned = <<>>
  /\ startOrder = <<>>
  /\ finishOrder = <<>>
  /\ outcomes = <<>>

\* No processMessage call has begun.
NoCall == [generations |-> 0, executions |-> 0, modelUsage |-> <<>>]

\* No decision was generated in the current call.
NoDecision == <<>>

AIdle ==
  /\ apc = "idle"
  /\ agentDialogue = NoDialogue
  /\ tools = {}
  /\ modelUsage = <<>>
  /\ tool = <<>>
  /\ reply = <<>>
  /\ path = "none"
  /\ turn = <<>>
  /\ calls = 0
  /\ generations = 0
  /\ executions = 0
  /\ usages = <<>>
  /\ atCall = NoCall
  /\ decision = NoDecision

\* No usage: the value getTotalUsage() starts from.
NoUsage == [promptTokens |-> 0, completionTokens |-> 0, totalTokens |-> 0]

OIdle ==
  /\ modelOf = <<>>
  /\ usageOf = <<>>
  /\ queried = NoUsage
  /\ previous = NoUsage
  /\ queries = 0
  /\ accrued = <<>>
  /\ reports = 0
  /\ workflowUsage = <<>>

\* No result was selected yet.
NoWorkflow == [index |-> 0]

MIdle ==
  /\ mpc = "idle"
  /\ mresults = <<>>
  /\ bestByScore = NoWorkflow
  /\ mostEfficient = NoWorkflow
  /\ fastest = NoWorkflow
  /\ mostTokenEfficient = NoWorkflow
  /\ mostCostEfficient = NoWorkflow

\* The number 0.
FloatZero == [m |-> 0, e |-> 0]

\* No customPricing argument.
NoPricing == [promptCostPerMillion |-> FloatZero, completionCostPerMillion |-> FloatZero,
              given |-> FALSE]

\* No calculateCost call was made.
NoCost == [modelName |-> "", usage |-> NoUsage, customPricing |-> NoPricing,
           cost |-> FloatZero]

CIdle ==
  /\ cpc = "idle"
  /\ costUsage = <<>>
  /\ costed = NoCost
  /\ totalCost = FloatZero

\* Date.now() was not read.
NoTime == 0 - 1

TIdle ==
  /\ tpc = "idle"
  /\ durations = <<>>
  /\ timedParallel = FALSE
  /\ timedMaxConcurrent = 0
  /\ clock = 0
  /\ startTime = <<>>
  /\ executionTimeMs = <<>>
  /\ batchStart = 0
  /\ mainStartTime = NoTime
  /\ totalTime = NoTime
  /\ waited = 0

\* No retry-after header.
NoHeader == [given |-> FALSE, value |-> <<>>]

\* The last generateText call did not fail.
NoError == [api |-> FALSE, isRetryable |-> FALSE, statusCode |-> 0,
            retryAfter |-> NoHeader, wrapped |-> FALSE]

SIdle ==
  /\ spc = "idle"
  /\ agentMaxIterations = 0
  /\ iterationCount = 0
  /\ gameOver = FALSE
  /\ lastError = NoError
  /\ delayMs = 0
  /\ attempts = 0
  /\ ended = "none"

\* undefined, and the identity of no object.
Undefined == 0

IIdle ==
  /\ given = <<>>
  /\ heap = <<>>
  /\ runs = <<>>
  /\ nextObject = 0
  /\ nextSession = 0
  /\ dialogueUsers = <<>>
  /\ sessionUsers = <<>>

GIdle ==
  /\ gpc = "idle"
  /\ numAgents = 0
  /\ agentsMaxConcurrent = 0
  /\ agentsIndex = 0
  /\ agentRun = <<>>
  /\ runCount = <<>>

NoAgentResult == [returned |-> FALSE, completed |-> FALSE]

NIdle ==
  /\ npc = "idle"
  /\ interactive = FALSE
  /\ runnerMaxIterations = 0
  /\ iterations = 0
  /\ gameStarted = FALSE
  /\ inAuto = FALSE
  /\ inputsRead = 0
  /\ stoppedBy = "none"
  /\ agentResult = NoAgentResult

NoMemory == [id |-> 0, importance |-> 0]

EIdle ==
  /\ maxMemories = 0
  /\ memories = <<>>
  /\ memoryCounter = 0
  /\ lastAdded = NoMemory
  /\ lastEvicted = {}

(***************************************************************************)
(* Specification of a Dialogue under arbitrary appends.                    *)
(***************************************************************************)
Contents == {Str(<<"h", "i">>), Num(42)}

ToolNames == {<<"m", "a", "p">>}

ToolCallIds == {<<"i", "d", "1">>}

DInit ==
  /\ dlg \in {NewDialogue(lim) : lim \in 0..MaxLimit}
  /\ appended = <<>>
  /\ WIdle
  /\ RIdle
  /\ AIdle
  /\ OIdle
  /\ MIdle
  /\ CIdle
  /\ TIdle
  /\ SIdle
  /\ IIdle
  /\ GIdle
  /\ NIdle
  /\ EIdle

User ==
  /\ Len(appended) < MaxAppends
  /\ \E c \in Contents :
       /\ dlg' = DialogueUser(dlg, c)
       /\ appended' = Append(appended, Message("user", MessageContent(c)))
  /\ UNCHANGED <<wvars, rvars, avars, ovars, mvars, cvars, tvars, svars, ivars,
                 gvars, nvars, evars>>

Assistant ==
  /\ Len(appended) < MaxAppends
  /\ \E c \in Contents :
       /\ dlg' = DialogueAssistant(dlg, c)
       /\ appended' = Append(appended, Message("assistant", MessageContent(c)))
  /\ UNCHANGED <<wvars, rvars, avars, ovars, mvars, cvars, tvars, svars, ivars,
                 gvars, nvars, evars>>

System ==
  /\ Len(appended) < MaxAppends
  /\ \E c \in Contents :
       /\ dlg' = DialogueSystem(dlg, c)
       /\ appended' = Append(appended, Message("system", MessageContent(c)))
  /\ UNCHANGED <<wvars, rvars, avars, ovars, mvars, cvars, tvars, svars, ivars,
                 gvars, nvars, evars>>

Tool ==
  /\ Len(appended) < MaxAppends
  /\ \E id \in ToolCallIds, name \in ToolNames, r \in Contents :
       /\ dlg' = DialogueTool(dlg, id, name, r)
       /\ appended' = Append(appended, ToolMessage(id, name, MessageContent(r)))
  /\ UNCHANGED <<wvars, rvars, avars, ovars, mvars, cvars, tvars, svars, ivars,
                 gvars, nvars, evars>>

DNext == User \/ Assistant \/ System \/ Tool

SpecDialogue == DInit /\ [][DNext]_vars

(***************************************************************************)
(* Specification of one BaseWorkflow.run().  The run is cut at its awaits: *)
(* startGame, sendCommand("verbose"), gameLoop, sendCommand(command).      *)
(* Every one of them may also raise inside the try block.                  *)
(***************************************************************************)
\* The dialogue limits of the runs: one that trims at every turn, and the
\* default of the constructor.
DialogueLimits == {1, 50}

WInit ==
  /\ DIdle
  /\ RIdle
  /\ AIdle
  /\ OIdle
  /\ MIdle
  /\ CIdle
  /\ TIdle
  /\ SIdle
  /\ IIdle
  /\ GIdle
  /\ NIdle
  /\ EIdle
  /\ pc = "start"
  /\ maxIterations \in 0..MaxIterations
  /\ dialogueLimit \in DialogueLimits
  /\ sessionId = NoSession
  /\ initialText = <<>>
  /\ text = <<>>
  /\ dialogue = NoDialogue
  /\ score = 0
  /\ moves = 0
  /\ gameEnded = FALSE
  /\ i = 0
  /\ command = <<>>
  /\ result = NoResult
  /\ commandsSent = <<>>
  /\ responses = <<>>
  /\ decisions = 0
  /\ thrown = "none"

\* A faulty variant of Catch: the values extracted so far are reported.
CatchKeepsCounters(step) ==
  /\ pc' = "returned"
  /\ thrown' = step
  /\ result' = [score |-> score, moves |-> moves, gameEnded |-> gameEnded, returned |-> TRUE]
  /\ UNCHANGED <<maxIterations, dialogueLimit, sessionId, initialText, text, dialogue,
                 score, moves, gameEnded, i, command, commandsSent, responses, decisions>>

\* catch (error): return { score: 0, moves: 0, gameEnded: false, ... }
Catch(step) ==
  /\ pc' = "returned"
  /\ thrown' = step
  /\ result' = [score |-> 0, moves |-> 0, gameEnded |-> FALSE, returned |-> TRUE]
  /\ UNCHANGED <<maxIterations, dialogueLimit, sessionId, initialText, text, dialogue,
                 score, moves, gameEnded, i, command, commandsSent, responses, decisions>>

\* const initialGameState = await startGame(this.gamePath)
StartGame ==
  /\ pc = "start"
  /\ \E r \in StartGameResults(GamePath) :
       /\ sessionId' = r.sessionId
       /\ initialText' = r.text
  /\ pc' = "setup"
  /\ UNCHANGED <<maxIterations, dialogueLimit, text, dialogue, score, moves, gameEnded,
                 i, command, result, commandsSent, responses, decisions, thrown>>
  /\ UNCHANGED <<dvars, rvars, avars, ovars, mvars, cvars, tvars, svars, ivars,
                 gvars, nvars, evars>>

StartGameThrows ==
  /\ pc = "start"
  /\ Catch("start")
  /\ UNCHANGED <<dvars, rvars, avars, ovars, mvars, cvars, tvars, svars, ivars,
                 gvars, nvars, evars>>

\* A faulty variant of Setup: the response of "verbose" becomes the text.
SetupUsesResponse ==
  /\ pc = "setup"
  /\ \E r \in SendCommandResults(sessionId, Verbose) :
       /\ commandsSent' = Append(commandsSent, Verbose)
       /\ text' = r
       /\ dialogue' = DialogueUser(NewDialogue(dialogueLimit), Str(r))
  /\ score' = 0
  /\ moves' = 0
  /\ gameEnded' = FALSE
  /\ i' = 0
  /\ pc' = "loop"
  /\ UNCHANGED <<maxIterations, dialogueLimit, sessionId, initialText, command, result,
                 responses, decisions, thrown>>
  /\ UNCHANGED <<dvars, rvars, avars, ovars, mvars, cvars, tvars, svars, ivars,
                 gvars, nvars, evars>>

\* await sendCommand(sessionId, "verbose"), its response dropped; then the
\* dialogue is created with the initial text and the counters are initialised.
Setup ==
  /\ pc = "setup"
  /\ \E r \in SendCommandResults(sessionId, Verbose) :
       /\ commandsSent' = Append(commandsSent, Verbose)
       /\ text' = initialText
       /\ dialogue' = DialogueUser(NewDialogue(dialogueLimit), Str(initialText))
  /\ score' = 0
  /\ moves' = 0
  /\ gameEnded' = FALSE
  /\ i' = 0
  /\ pc' = "loop"
  /\ UNCHANGED <<maxIterations, dialogueLimit, sessionId, initialText, command, result,
                 responses, decisions, thrown>>
  /\ UNCHANGED <<dvars, rvars, avars, ovars, mvars, cvars, tvars, svars, ivars,
                 gvars, nvars, evars>>

SetupThrows ==
  /\ pc = "setup"
  /\ Catch("setup")
  /\ UNCHANGED <<dvars, rvars, avars, ovars, mvars, cvars, tvars, svars, ivars,
                 gvars, nvars, evars>>

\* A faulty variant of LoopCondition: one iteration too many.
LoopConditionOffByOne == i <= maxIterations

\* A faulty variant of LoopCondition: a text that matches a termination
\* phrase, the initial text included, ends the loop.
LoopConditionStopsOnEndedText == i < maxIterations /\ ~GameEnded(text)

\* for (let i = 0; i < this.maxIterations; i++)
LoopCondition == i < maxIterations

\* The head of an iteration: the counters are parsed from text, and gameLoop
\* returns the next command.
Decide ==
  /\ pc = "loop"
  /\ LoopCondition
  /\ score' = ExtractScore(text, score)
  /\ moves' = ExtractMoves(text, moves)
  /\ \E c \in Commands : command' = c
  /\ decisions' = decisions + 1
  /\ pc' = "submit"
  /\ UNCHANGED <<maxIterations, dialogueLimit, sessionId, initialText, text, dialogue,
                 gameEnded, i, result, commandsSent, responses, thrown>>
  /\ UNCHANGED <<dvars, rvars, avars, ovars, mvars, cvars, tvars, svars, ivars,
                 gvars, nvars, evars>>

DecideThrows ==
  /\ pc = "loop"
  /\ LoopCondition
  /\ Catch("decide")
  /\ UNCHANGED <<dvars, rvars, avars, ovars, mvars, cvars, tvars, svars, ivars,
                 gvars, nvars, evars>>

\* A faulty variant of AfterResponse: the loop goes on after a termination phrase.
AfterResponseNoBreak(t) ==
  /\ gameEnded' = GameEnded(t)
  /\ i' = i + 1
  /\ pc' = "loop"

\* A faulty variant of AfterResponse: the loop is also left, as not ended,
\* when the game API could not be reached.
AfterResponseStopsOnError(t) ==
  IF GameEnded(t)
    THEN /\ gameEnded' = TRUE
         /\ i' = i
         /\ pc' = "exit"
    ELSE /\ gameEnded' = gameEnded
         /\ i' = i + 1
         /\ pc' = IF t = CommandErrorText(command) THEN "exit" ELSE "loop"

\* if (gameEndPatterns.some(...)) { gameEnded = true; break; }, else i++.
AfterResponse(t) ==
  IF GameEnded(t)
    THEN /\ gameEnded' = TRUE
         /\ i' = i
         /\ pc' = "exit"
    ELSE /\ gameEnded' = gameEnded
         /\ i' = i + 1
         /\ pc' = "loop"

\* ({ text } = await sendCommand(sessionId, command)); dialogue.user(text);
\* then the termination test.
Submit ==
  /\ pc = "submit"
  /\ \E t \in SendCommandResults(sessionId, command) :
       /\ text' = t
       /\ responses' = Append(responses, t)
       /\ dialogue' = DialogueUser(dialogue, Str(t))
       /\ AfterResponse(t)
  /\ commandsSent' = Append(commandsSent, command)
  /\ UNCHANGED <<maxIterations, dialogueLimit, sessionId, initialText, score, moves,
                 command, result, decisions, thrown>>
  /\ UNCHANGED <<dvars, rvars, avars, ovars, mvars, cvars, tvars, svars, ivars,
                 gvars, nvars, evars>>

SubmitThrows ==
  /\ pc = "submit"
  /\ Catch("submit")
  /\ UNCHANGED <<dvars, rvars, avars, ovars, mvars, cvars, tvars, svars, ivars,
                 gvars, nvars, evars>>

\* A faulty variant of Return: the last text is not parsed.
ReturnWithoutFinalExtraction ==
  /\ \/ pc = "exit"
     \/ pc = "loop" /\ ~LoopCondition
  /\ result' = [score |-> score, moves |-> moves, gameEnded |-> gameEnded, returned |-> TRUE]
  /\ pc' = "returned"
  /\ UNCHANGED <<maxIterations, dialogueLimit, sessionId, initialText, text, dialogue,
                 score, moves, gameEnded, i, command, commandsSent, responses,
                 decisions, thrown>>
  /\ UNCHANGED <<dvars, rvars, avars, ovars, mvars, cvars, tvars, svars, ivars,
                 gvars, nvars, evars>>

\* After the loop: the counters are parsed from the last text and returned.
Return ==
  /\ \/ pc = "exit"
     \/ pc = "loop" /\ ~LoopCondition
  /\ score' = ExtractScore(text, score)
  /\ moves' = ExtractMoves(text, moves)
  /\ result' = [score |-> score', moves |-> moves', gameEnded |-> gameEnded, returned |-> TRUE]
  /\ pc' = "returned"
  /\ UNCHANGED <<maxIterations, dialogueLimit, sessionId, initialText, text, dialogue,
                 gameEnded, i, command, commandsSent, responses, decisions, thrown>>
  /\ UNCHANGED <<dvars, rvars, avars, ovars, mvars, cvars, tvars, svars, ivars,
                 gvars, nvars, evars>>

WNext ==
  \/ StartGame \/ StartGameThrows
  \/ Setup \/ SetupThrows
  \/ Decide \/ DecideThrows
  \/ Submit \/ SubmitThrows
  \/ Return

SpecWorkflow == WInit /\ [][WNext]_vars

(***************************************************************************)
(* Specification of one WorkflowRunner.runAll().  The run of a workflow is *)
(* a call that ends, at some later time, by returning counters or by       *)
(* throwing; the runner is cut at its awaits.                              *)
(***************************************************************************)
\* How workflowWithLogger.run() (or the construction before it) can end.
RunOutcomes ==
  {[threw |-> FALSE, score |-> 10, moves |-> 7, gameEnded |-> TRUE],
   [threw |-> FALSE, score |-> 5, moves |-> 3, gameEnded |-> FALSE],
   [threw |-> TRUE, score |-> 0, moves |-> 0, gameEnded |-> FALSE]}

NoOutcome == [threw |-> FALSE, score |-> 0, moves |-> 0, gameEnded |-> FALSE]

NoWorkflowResult == [name |-> 0, score |-> 0, moves |-> 0, completed |-> FALSE]

NotStarted == [state |-> "notStarted", value |-> NoWorkflowResult]

Pending == [state |-> "pending", value |-> NoWorkflowResult]

\* A faulty variant of RunWorkflowSettles: the error of the run is not caught.
RunWorkflowRethrows(k, o) ==
  IF o.threw
    THEN [state |-> "rejected", value |-> NoWorkflowResult]
    ELSE [state |-> "fulfilled",
          value |-> [name |-> k, score |-> o.score, moves |-> o.moves,
                     completed |-> o.gameEnded]]

\* runWorkflow after its await: the result of the run, or in the catch block
\* the result of a failed run; either way the promise is fulfilled.
RunWorkflowSettles(k, o) ==
  IF o.threw
    THEN [state |-> "fulfilled",
          value |-> [name |-> k, score |-> 0, moves |-> 0, completed |-> FALSE]]
    ELSE [state |-> "fulfilled",
          value |-> [name |-> k, score |-> o.score, moves |-> o.moves,
                     completed |-> o.gameEnded]]

\* A faulty variant of Awaited: the caller goes on without waiting.
AwaitedNoWait(ks) == TRUE

\* A faulty variant of Awaited: the caller goes on when the first promise is settled.
AwaitedAny(ks) ==
  \/ \E k \in ks : promises[k].state \in {"fulfilled", "rejected"}
  \/ ks = {}

\* await of a promise, or of Promise.all of promises: the caller goes on when
\* all of them are fulfilled, or when one of them is rejected.
Awaited(ks) ==
  \/ \A k \in ks : promises[k].state = "fulfilled"
  \/ \E k \in ks : promises[k].state = "rejected"

Rejected(ks) == \E k \in ks : promises[k].state = "rejected"

\* The workflows of ks, in the order their runs ended.
RECURSIVE InFinishOrder(_, _)
InFinishOrder(order, ks) ==
  IF order = <<>> THEN <<>>
  ELSE (IF Head(order) \in ks THEN <<Head(order)>> ELSE <<>>)
         \o InFinishOrder(Tail(order), ks)

\* A faulty variant of PromiseAll: the values in the order the promises were settled.
PromiseAllCompletionOrder(first, last) ==
  LET order == InFinishOrder(finishOrder, first..last)
  IN  [k \in 1..Len(order) |-> promises[order[k]].value]

\* The value of Promise.all(promises of workflows first..last): the values in
\* the order of the promises.
PromiseAll(first, last) ==
  [k \in 1..(last - first + 1) |-> promises[first + k - 1].value]

\* parseInt(args[...], 10) on an argument that is missing or does not start
\* with a number: NaN, written as a number that is no cap and no index.
NotANumber == 0 - (MaxWorkflows + 2)

\* a + b and a < b of JavaScript numbers: NaN + b is NaN, NaN < b is false.
Plus(a, b) == IF a = NotANumber \/ b = NotANumber THEN NotANumber ELSE a + b

LessThan(a, b) == a # NotANumber /\ b # NotANumber /\ a < b

\* this.workflows.slice(i, i + maxConcurrent): the workflows at the zero-based
\* positions i .. i + maxConcurrent - 1, that is workflows i + 1 .. BatchEnd(i).
\* An end of NaN is taken as 0, and the slice is empty.
BatchEnd(i0) ==
  IF Plus(i0, maxConcurrent) = NotANumber
    THEN i0
    ELSE IF i0 + maxConcurrent < numWorkflows THEN i0 + maxConcurrent ELSE numWorkflows

\* A faulty variant of Unbounded: a cap of 0 is not taken as "no cap".
UnboundedWhenCapCoversAll == maxConcurrent >= numWorkflows

\* maxConcurrent <= 0 || maxConcurrent >= this.workflows.length: false for
\* NaN, which no comparison holds of.
Unbounded ==
  /\ maxConcurrent # NotANumber
  /\ maxConcurrent <= 0 \/ maxConcurrent >= numWorkflows

\* workflows.map((workflow) => this.runWorkflow(workflow)) on workflows
\* first..last: each runWorkflow runs up to its await.
StartWorkflows(first, last) ==
  /\ promises' = [k \in 1..numWorkflows |->
                    IF k \in first..last THEN Pending ELSE promises[k]]
  /\ startOrder' = startOrder \o [k \in 1..(last - first + 1) |-> first + k - 1]

\* The runner as main() constructs it from the arguments of the command
\* line: parallel from --parallel, maxConcurrent from parseInt of the argument
\* after --max-concurrent (a negative number, 0, a positive number or NaN),
\* or 0 without the flag.
CommandLineCaps == ((0 - 1)..MaxWorkflows) \cup {NotANumber}

RInitCommandLine ==
  /\ DIdle
  /\ WIdle
  /\ AIdle
  /\ OIdle
  /\ MIdle
  /\ CIdle
  /\ TIdle
  /\ SIdle
  /\ IIdle
  /\ GIdle
  /\ NIdle
  /\ EIdle
  /\ rpc = "start"
  /\ numWorkflows \in 1..MaxWorkflows
  /\ parallel \in BOOLEAN
  /\ maxConcurrent \in CommandLineCaps
  /\ promises = [k \in 1..numWorkflows |-> NotStarted]
  /\ results = <<>>
  /\ cursor = 0
  /\ returned = <<>>
  /\ startOrder = <<>>
  /\ finishOrder = <<>>
  /\ outcomes = [k \in 1..numWorkflows |-> NoOutcome]

\* The runner with a cap that is a number and not negative.
RInit ==
  /\ DIdle
  /\ WIdle
  /\ AIdle
  /\ OIdle
  /\ MIdle
  /\ CIdle
  /\ TIdle
  /\ SIdle
  /\ IIdle
  /\ GIdle
  /\ NIdle
  /\ EIdle
  /\ rpc = "start"
  /\ numWorkflows \in 1..MaxWorkflows
  /\ parallel \in BOOLEAN
  /\ maxConcurrent \in 0..MaxWorkflows
  /\ promises = [k \in 1..numWorkflows |-> NotStarted]
  /\ results = <<>>
  /\ cursor = 0
  /\ returned = <<>>
  /\ startOrder = <<>>
  /\ finishOrder = <<>>
  /\ outcomes = [k \in 1..numWorkflows |-> NoOutcome]

\* runAll -> runSequential: the first workflow is started and awaited.
StartSequential ==
  /\ rpc = "start"
  /\ ~parallel
  /\ rpc' = "sequential"
  /\ cursor' = 1
  /\ StartWorkflows(1, 1)
  /\ UNCHANGED <<numWorkflows, parallel, maxConcurrent, results, returned,
                 finishOrder, outcomes>>
  /\ UNCHANGED <<dvars, wvars, avars, ovars, mvars, cvars, tvars, svars, ivars,
                 gvars, nvars, evars>>

\* runSequential after its await: the result is pushed, and the next workflow
\* is started, or the results are returned.
ContinueSequential ==
  /\ rpc = "sequential"
  /\ Awaited({cursor})
  /\ IF Rejected({cursor})
       THEN /\ rpc' = "rejected"
            /\ UNCHANGED <<results, cursor, returned, promises, startOrder>>
       ELSE /\ results' = Append(results, promises[cursor].value)
            /\ IF cursor < numWorkflows
                 THEN /\ cursor' = cursor + 1
                      /\ StartWorkflows(cursor + 1, cursor + 1)
                      /\ UNCHANGED <<rpc, returned>>
                 ELSE /\ rpc' = "returned"
                      /\ returned' = results'
                      /\ UNCHANGED <<cursor, promises, startOrder>>
  /\ UNCHANGED <<numWorkflows, parallel, maxConcurrent, finishOrder, outcomes>>
  /\ UNCHANGED <<dvars, wvars, avars, ovars, mvars, cvars, tvars, svars, ivars,
                 gvars, nvars, evars>>

\* runAll -> runParallel without a cap: every workflow is started, and
\* Promise.all of them is awaited.
StartAll ==
  /\ rpc = "start"
  /\ parallel
  /\ Unbounded
  /\ rpc' = "all"
  /\ StartWorkflows(1, numWorkflows)
  /\ UNCHANGED <<numWorkflows, parallel, maxConcurrent, results, cursor, returned,
                 finishOrder, outcomes>>
  /\ UNCHANGED <<dvars, wvars, avars, ovars, mvars, cvars, tvars, svars, ivars,
                 gvars, nvars, evars>>

\* return await Promise.all(promises)
ReturnAll ==
  /\ rpc = "all"
  /\ Awaited(1..numWorkflows)
  /\ IF Rejected(1..numWorkflows)
       THEN /\ rpc' = "rejected"
            /\ UNCHANGED returned
       ELSE /\ rpc' = "returned"
            /\ returned' = PromiseAll(1, numWorkflows)
  /\ UNCHANGED <<numWorkflows, parallel, maxConcurrent, promises, results, cursor,
                 startOrder, finishOrder, outcomes>>
  /\ UNCHANGED <<dvars, wvars, avars, ovars, mvars, cvars, tvars, svars, ivars,
                 gvars, nvars, evars>>

\* runAll -> runParallel with a cap: the first batch is started and awaited.
StartBatches ==
  /\ rpc = "start"
  /\ parallel
  /\ ~Unbounded
  /\ rpc' = "batch"
  /\ cursor' = 0
  /\ StartWorkflows(1, BatchEnd(0))
  /\ UNCHANGED <<numWorkflows, parallel, maxConcurrent, results, returned,
                 finishOrder, outcomes>>
  /\ UNCHANGED <<dvars, wvars, avars, ovars, mvars, cvars, tvars, svars, ivars,
                 gvars, nvars, evars>>

\* runParallel after the await of a batch: results.push(...batchResults),
\* i += maxConcurrent, and the next batch is started, or the results are returned.
ContinueBatches ==
  /\ rpc = "batch"
  /\ Awaited((cursor + 1)..BatchEnd(cursor))
  /\ IF Rejected((cursor + 1)..BatchEnd(cursor))
       THEN /\ rpc' = "rejected"
            /\ UNCHANGED <<results, cursor, returned, promises, startOrder>>
       ELSE /\ results' = results \o PromiseAll(cursor + 1, BatchEnd(cursor))
            /\ cursor' = Plus(cursor, maxConcurrent)
            /\ IF LessThan(cursor', numWorkflows)
                 THEN /\ StartWorkflows(cursor' + 1, BatchEnd(cursor'))
                      /\ UNCHANGED <<rpc, returned>>
                 ELSE /\ rpc' = "returned"
                      /\ returned' = results'
                      /\ UNCHANGED <<promises, startOrder>>
  /\ UNCHANGED <<numWorkflows, parallel, maxConcurrent, finishOrder, outcomes>>
  /\ UNCHANGED <<dvars, wvars, avars, ovars, mvars, cvars, tvars, svars, ivars,
                 gvars, nvars, evars>>

\* The run of a started workflow ends, and runWorkflow settles its promise.
FinishWorkflow ==
  /\ \E k \in 1..numWorkflows, o \in RunOutcomes :
       /\ promises[k].state = "pending"
       /\ promises' = [promises EXCEPT ![k] = RunWorkflowSettles(k, o)]
       /\ outcomes' = [outcomes EXCEPT ![k] = o]
       /\ finishOrder' = Append(finishOrder, k)
  /\ UNCHANGED <<rpc, numWorkflows, parallel, maxConcurrent, results, cursor,
                 returned, startOrder>>
  /\ UNCHANGED <<dvars, wvars, avars, ovars, mvars, cvars, tvars, svars, ivars,
                 gvars, nvars, evars>>

RNext ==
  \/ StartSequential \/ ContinueSequential
  \/ StartAll \/ ReturnAll
  \/ StartBatches \/ ContinueBatches
  \/ FinishWorkflow

SpecRunner == RInit /\ [][RNext]_vars

SpecRunnerCommandLine == RInitCommandLine /\ [][RNext]_vars

(***************************************************************************)
(* Specification of one BaseAgent under processMessage calls.  A call is   *)
(* cut at its awaits: generateText, generateObject, tool.execute.  Each    *)
(* generation may also fail; nothing in processMessage catches that.       *)
(***************************************************************************)
SystemPrompt == <<"B", "e", " ", "b", "r", "i", "e", "f", ".">>

ModelId == "gpt-4o"

\* this.id, the ulid of the agent.
AgentId == <<"0", "1", "J">>

\* The action of a decision that answers the user directly.
Respond == <<"r", "e", "s", "p", "o", "n", "d">>

\* "map", the registered tool, and "goal", a name that is not registered.
MapTool == <<"m", "a", "p">>

GoalTool == <<"g", "o", "a", "l">>

UserMessages == {Look}

GeneratedTexts == {<<"O", "K">>, TextWest}

\* What a tool handler can resolve to.
ToolResults == {Str(TextWest), Num(42)}

Usages ==
  {[promptTokens |-> 10, completionTokens |-> 20, totalTokens |-> 30],
   [promptTokens |-> 5, completionTokens |-> 5, totalTokens |-> 10]}

\* The capacities of the agents: one that evicts at once, one that holds less
\* than a turn with a tool, and the default of the constructor.
AgentLimits == {1, 3, 50}

\* `Tool ${response.action} not found`
ToolNotFoundText(name) ==
  <<"T", "o", "o", "l", " ">> \o name \o <<" ", "n", "o", "t", " ", "f", "o", "u", "n", "d">>

\* `Error executing tool ${tool.name}: ${error}`, for the error new Error("boom").
ToolErrorText(name) ==
  <<"E", "r", "r", "o", "r", " ", "e", "x", "e", "c", "u", "t", "i", "n", "g", " ",
    "t", "o", "o", "l", " ">>
  \o name
  \o <<":", " ", "E", "r", "r", "o", "r", ":", " ", "b", "o", "o", "m">>

\* A faulty variant of Find: the name is not compared.
FindAny(ts, name) == ts

\* this.tools.find((t) => t.name === response.action): the tools of that
\* name; the empty set stands for undefined.
Find(ts, name) == {t \in ts : t = name}

\* A faulty variant of ToolFailed: the error is recorded as the tool's result.
ToolFailedAsResult(d, name) ==
  DialogueTool(d, AgentId, name, Str(ToolErrorText(name)))

\* The catch block of processWithTools: the error message is appended as an
\* assistant message.
ToolFailed(d, name) == DialogueAssistant(d, Str(ToolErrorText(name)))

\* A faulty variant of TrackModelUsage: the entry of the model is replaced.
TrackModelUsageOverwrites(mu, modelName, usage) ==
  [m \in DOMAIN mu \cup {modelName} |->
     IF m = modelName THEN usage ELSE mu[m]]

\* trackModelUsage: the counts are added to those of the model, or the entry
\* is created with a copy of them.
TrackModelUsage(mu, modelName, usage) ==
  IF modelName \in DOMAIN mu
    THEN [mu EXCEPT
            ![modelName] =
              [promptTokens |-> @.promptTokens + usage.promptTokens,
               completionTokens |-> @.completionTokens + usage.completionTokens,
               totalTokens |-> @.totalTokens + usage.totalTokens]]
    ELSE [m \in DOMAIN mu \cup {modelName} |->
            IF m = modelName THEN usage ELSE mu[m]]

AInit ==
  /\ DIdle
  /\ WIdle
  /\ RIdle
  /\ OIdle
  /\ MIdle
  /\ CIdle
  /\ TIdle
  /\ SIdle
  /\ IIdle
  /\ GIdle
  /\ NIdle
  /\ EIdle
  /\ apc = "ready"
  /\ \E lim \in AgentLimits :
       agentDialogue = DialogueSystem(NewDialogue(lim), Str(SystemPrompt))
  /\ tools \in {{}, {MapTool}}
  /\ modelUsage = <<>>
  /\ tool = <<>>
  /\ reply = <<>>
  /\ path = "none"
  /\ turn = <<>>
  /\ calls = 0
  /\ generations = 0
  /\ executions = 0
  /\ usages = <<>>
  /\ atCall = NoCall
  /\ decision = NoDecision

\* processMessage up to its first await: the message is appended as a user
\* message, and a generation is requested.
ProcessMessage ==
  /\ apc = "ready"
  /\ calls < MaxCalls
  /\ \E message \in UserMessages :
       /\ agentDialogue' = DialogueUser(agentDialogue, Str(message))
       /\ turn' = <<Message("user", message)>>
  /\ apc' = IF Cardinality(tools) > 0 THEN "generateObject" ELSE "generateText"
  /\ calls' = calls + 1
  /\ path' = "pending"
  /\ atCall' = [generations |-> generations, executions |-> executions,
                modelUsage |-> modelUsage]
  /\ decision' = NoDecision
  /\ UNCHANGED <<tools, modelUsage, tool, reply, generations, executions, usages>>
  /\ UNCHANGED <<dvars, wvars, rvars, ovars, mvars, cvars, tvars, svars, ivars,
                 gvars, nvars, evars>>

\* processWithoutTools after generateText: the text is appended as an
\* assistant message and returned.
GenerateTextReturns ==
  /\ apc = "generateText"
  /\ \E t \in GeneratedTexts, u \in Usages :
       /\ agentDialogue' = DialogueAssistant(agentDialogue, Str(t))
       /\ turn' = Append(turn, Message("assistant", t))
       /\ modelUsage' = TrackModelUsage(modelUsage, ModelId, u)
       /\ usages' = Append(usages, u)
       /\ reply' = t
  /\ generations' = generations + 1
  /\ path' = "text"
  /\ apc' = "ready"
  /\ UNCHANGED <<tools, tool, calls, executions, atCall, decision>>
  /\ UNCHANGED <<dvars, wvars, rvars, ovars, mvars, cvars, tvars, svars, ivars,
                 gvars, nvars, evars>>

\* A generation call fails: the error leaves processMessage.
GenerationThrows ==
  /\ apc \in {"generateText", "generateObject", "processToolResult"}
  /\ path' = "threw"
  /\ apc' = "ready"
  /\ UNCHANGED <<agentDialogue, tools, modelUsage, tool, reply, turn, calls,
                 generations, executions, usages, atCall, decision>>
  /\ UNCHANGED <<dvars, wvars, rvars, ovars, mvars, cvars, tvars, svars, ivars,
                 gvars, nvars, evars>>

\* processWithTools after generateObject, action "respond".
DecisionResponds ==
  /\ apc = "generateObject"
  /\ \E t \in GeneratedTexts, u \in Usages :
       /\ modelUsage' = TrackModelUsage(modelUsage, ModelId, u)
       /\ usages' = Append(usages, u)
       /\ agentDialogue' = DialogueAssistant(agentDialogue, Str(t))
       /\ turn' = Append(turn, Message("assistant", t))
       /\ reply' = t
  /\ generations' = generations + 1
  /\ path' = "respond"
  /\ apc' = "ready"
  /\ decision' = Respond
  /\ UNCHANGED <<tools, tool, calls, executions, atCall>>
  /\ UNCHANGED <<dvars, wvars, rvars, ovars, mvars, cvars, tvars, svars, ivars,
                 gvars, nvars, evars>>

\* processWithTools after generateObject, action a tool name: the tool is
\* looked up; when it is not found the error message is appended as an
\* assistant message and returned, otherwise the handler is called.
DecisionSelectsTool ==
  /\ apc = "generateObject"
  /\ \E name \in {MapTool, GoalTool}, u \in Usages :
       /\ modelUsage' = TrackModelUsage(modelUsage, ModelId, u)
       /\ usages' = Append(usages, u)
       /\ decision' = name
       /\ IF Find(tools, name) # {}
            THEN /\ tool' = CHOOSE t \in Find(tools, name) : TRUE
                 /\ apc' = "execute"
                 /\ path' = path
                 /\ UNCHANGED <<agentDialogue, turn, reply>>
            ELSE /\ agentDialogue' =
                      DialogueAssistant(agentDialogue, Str(ToolNotFoundText(name)))
                 /\ turn' = Append(turn, Message("assistant", ToolNotFoundText(name)))
                 /\ reply' = ToolNotFoundText(name)
                 /\ apc' = "ready"
                 /\ path' = "notFound"
                 /\ tool' = tool
  /\ generations' = generations + 1
  /\ UNCHANGED <<tools, calls, executions, atCall>>
  /\ UNCHANGED <<dvars, wvars, rvars, ovars, mvars, cvars, tvars, svars, ivars,
                 gvars, nvars, evars>>

\* this.dialogue.tool(this.id, tool.name, toolResult)
ToolResultAppended(d, name, r) == DialogueTool(d, AgentId, name, r)

\* tool.execute resolved: the result is appended as a tool message, and
\* processToolResult requests the follow-up generation.
ToolReturns ==
  /\ apc = "execute"
  /\ \E r \in ToolResults :
       /\ agentDialogue' = ToolResultAppended(agentDialogue, tool, r)
       /\ turn' = Append(turn, ToolMessage(AgentId, tool, MessageContent(r)))
  /\ executions' = executions + 1
  /\ apc' = "processToolResult"
  /\ UNCHANGED <<tools, modelUsage, tool, reply, path, calls, generations,
                 usages, atCall, decision>>
  /\ UNCHANGED <<dvars, wvars, rvars, ovars, mvars, cvars, tvars, svars, ivars,
                 gvars, nvars, evars>>

\* tool.execute rejected: the catch block appends the error message as an
\* assistant message and returns it.
ToolThrows ==
  /\ apc = "execute"
  /\ agentDialogue' = ToolFailed(agentDialogue, tool)
  /\ turn' = Append(turn, Message("assistant", ToolErrorText(tool)))
  /\ reply' = ToolErrorText(tool)
  /\ executions' = executions + 1
  /\ path' = "toolError"
  /\ apc' = "ready"
  /\ UNCHANGED <<tools, modelUsage, tool, calls, generations, usages, atCall,
                 decision>>
  /\ UNCHANGED <<dvars, wvars, rvars, ovars, mvars, cvars, tvars, svars, ivars,
                 gvars, nvars, evars>>

\* processToolResult after generateText: the text is appended as an assistant
\* message and returned.
ToolResultProcessed ==
  /\ apc = "processToolResult"
  /\ \E t \in GeneratedTexts, u \in Usages :
       /\ agentDialogue' = DialogueAssistant(agentDialogue, Str(t))
       /\ turn' = Append(turn, Message("assistant", t))
       /\ modelUsage' = TrackModelUsage(modelUsage, ModelId, u)
       /\ usages' = Append(usages, u)
       /\ reply' = t
  /\ generations' = generations + 1
  /\ path' = "tool"
  /\ apc' = "ready"
  /\ UNCHANGED <<tools, tool, calls, executions, atCall, decision>>
  /\ UNCHANGED <<dvars, wvars, rvars, ovars, mvars, cvars, tvars, svars, ivars,
                 gvars, nvars, evars>>

ANext ==
  \/ ProcessMessage
  \/ GenerateTextReturns
  \/ GenerationThrows
  \/ DecisionResponds
  \/ DecisionSelectsTool
  \/ ToolReturns
  \/ ToolThrows
  \/ ToolResultProcessed

SpecAgent == AInit /\ [][ANext]_vars

(***************************************************************************)
(* Specification of one AgentOrchestrator: the orchestrator and its five   *)
(* specialised agents are BaseAgents that track the usage of their own     *)
(* generation calls; getTotalTokenUsage() is called at arbitrary times,    *)
(* and by the AgentBasedWorkflow that owns the orchestrator at the end of  *)
(* each gameLoop.                                                          *)
(***************************************************************************)
Orchestrator == "orchestrator"

\* gameAgent, memoryAgent, goalAgent, puzzleSolverAgent, mapAgent
Children == {"game", "memory", "goal", "puzzle", "map"}

Agents == {Orchestrator} \cup Children

\* The model of the agents that can be given their own: "mistral".
Mistral == "mistral"

\* The models of the agents: config.model for the orchestrator and the game
\* agent, memoryModel || config.model and so on for the others.
ModelsOf ==
  {[a \in Agents |-> IF a \in {Orchestrator, "game"} THEN ModelId ELSE m] :
     m \in {ModelId, Mistral}}

\* getTotalUsage: the sum of the usages of all models, from zero.
RECURSIVE GetTotalUsage(_)
GetTotalUsage(mu) ==
  IF DOMAIN mu = {}
    THEN NoUsage
    ELSE LET m == CHOOSE x \in DOMAIN mu : TRUE
             rest == GetTotalUsage([x \in DOMAIN mu \ {m} |-> mu[x]])
         IN  [promptTokens |-> rest.promptTokens + mu[m].promptTokens,
              completionTokens |-> rest.completionTokens + mu[m].completionTokens,
              totalTokens |-> rest.totalTokens + mu[m].totalTokens]

\* A faulty variant of GetTotalTokenUsage: the map agent is left out.
GetTotalTokenUsageWithoutMap(us) ==
  LET baseUsage == GetTotalUsage(us[Orchestrator])
      gameUsage == GetTotalUsage(us["game"])
      memoryUsage == GetTotalUsage(us["memory"])
      goalUsage == GetTotalUsage(us["goal"])
      puzzleUsage == GetTotalUsage(us["puzzle"])
  IN  [promptTokens |->
         baseUsage.promptTokens + gameUsage.promptTokens
         + memoryUsage.promptTokens + goalUsage.promptTokens
         + puzzleUsage.promptTokens,
       completionTokens |->
         baseUsage.completionTokens + gameUsage.completionTokens
         + memoryUsage.completionTokens + goalUsage.completionTokens
         + puzzleUsage.completionTokens,
       totalTokens |->
         baseUsage.totalTokens + gameUsage.totalTokens
         + memoryUsage.totalTokens + goalUsage.totalTokens
         + puzzleUsage.totalTokens]

\* getTotalTokenUsage: the usage of the orchestrator and of its five agents,
\* added component by component.
GetTotalTokenUsage(us) ==
  LET baseUsage == GetTotalUsage(us[Orchestrator])
      gameUsage == GetTotalUsage(us["game"])
      memoryUsage == GetTotalUsage(us["memory"])
      goalUsage == GetTotalUsage(us["goal"])
      puzzleUsage == GetTotalUsage(us["puzzle"])
      mapUsage == GetTotalUsage(us["map"])
  IN  [promptTokens |->
         baseUsage.promptTokens + gameUsage.promptTokens
         + memoryUsage.promptTokens + goalUsage.promptTokens
         + puzzleUsage.promptTokens + mapUsage.promptTokens,
       completionTokens |->
         baseUsage.completionTokens + gameUsage.completionTokens
         + memoryUsage.completionTokens + goalUsage.completionTokens
         + puzzleUsage.completionTokens + mapUsage.completionTokens,
       totalTokens |->
         baseUsage.totalTokens + gameUsage.totalTokens
         + memoryUsage.totalTokens + goalUsage.totalTokens
         + puzzleUsage.totalTokens + mapUsage.totalTokens]

OInit ==
  /\ DIdle
  /\ WIdle
  /\ RIdle
  /\ AIdle
  /\ MIdle
  /\ CIdle
  /\ TIdle
  /\ SIdle
  /\ IIdle
  /\ GIdle
  /\ NIdle
  /\ EIdle
  /\ modelOf \in ModelsOf
  /\ usageOf = [a \in Agents |-> <<>>]
  /\ queried = NoUsage
  /\ previous = NoUsage
  /\ queries = 0
  /\ accrued = [a \in Agents |-> NoUsage]
  /\ reports = 0
  /\ workflowUsage = <<>>

\* A generation call of one of the agents returned: the agent tracks the
\* usage the call reported under the id of its model.
AgentTracksUsage ==
  /\ reports < MaxReports
  /\ \E a \in Agents, u \in Usages :
       /\ usageOf' = [usageOf EXCEPT ![a] = TrackModelUsage(@, modelOf[a], u)]
       /\ accrued' =
            [accrued EXCEPT
               ![a] = [promptTokens |-> @.promptTokens + u.promptTokens,
                       completionTokens |-> @.completionTokens + u.completionTokens,
                       totalTokens |-> @.totalTokens + u.totalTokens]]
  /\ reports' = reports + 1
  /\ UNCHANGED <<modelOf, queried, previous, queries, workflowUsage>>
  /\ UNCHANGED <<dvars, wvars, rvars, avars, mvars, cvars, tvars, svars, ivars,
                 gvars, nvars, evars>>

\* A caller reads getTotalTokenUsage().
QueryTotalTokenUsage ==
  /\ queries < MaxQueries
  /\ queried' = GetTotalTokenUsage(usageOf)
  /\ previous' = queried
  /\ queries' = queries + 1
  /\ UNCHANGED <<modelOf, usageOf, accrued, reports, workflowUsage>>
  /\ UNCHANGED <<dvars, wvars, rvars, avars, mvars, cvars, tvars, svars, ivars,
                 gvars, nvars, evars>>

\* AgentBasedWorkflow.gameLoop after orchestrator.processMessage returned:
\* the workflow tracks what getTotalTokenUsage() returns under the id of its
\* main model.
GameLoopTracksUsage ==
  /\ queries < MaxQueries
  /\ queried' = GetTotalTokenUsage(usageOf)
  /\ previous' = queried
  /\ queries' = queries + 1
  /\ workflowUsage' = TrackModelUsage(workflowUsage, ModelId, queried')
  /\ UNCHANGED <<modelOf, usageOf, accrued, reports>>
  /\ UNCHANGED <<dvars, wvars, rvars, avars, mvars, cvars, tvars, svars, ivars,
                 gvars, nvars, evars>>

ONext ==
  \/ AgentTracksUsage
  \/ QueryTotalTokenUsage
  \/ GameLoopTracksUsage

SpecOrchestrator == OInit /\ [][ONext]_vars

(***************************************************************************)
(* Specification of the summary of runWorkflows: the results of             *)
(* runner.runAll() are reduced to the best result by score, by score per   *)
(* move, by elapsed time, by score per token and by score per cost.  A     *)
(* result carries its position in the list as its identity.                *)
(***************************************************************************)
Scores == {0, 10, 20}

MovesCounts == {0, 5, 10}

ExecutionTimes == {100, 200}

TokenCounts == {0, 100}

\* The estimated costs, in a unit that makes them whole numbers.
Costs == {0, 2}

WorkflowResults ==
  [score : Scores, moves : MovesCounts, executionTimeMs : ExecutionTimes,
   totalTokens : TokenCounts, estimatedCost : Costs]

\* The arrays runAll() can resolve to: one result or more.
ResultArrays ==
  UNION {[1..n -> WorkflowResults] : n \in 1..MaxResults}

\* The result objects of an array, each with its position.
WithIndex(rs) ==
  [k \in 1..Len(rs) |->
     [index |-> k, score |-> rs[k].score, moves |-> rs[k].moves,
      executionTimeMs |-> rs[k].executionTimeMs,
      totalTokens |-> rs[k].totalTokens,
      estimatedCost |-> rs[k].estimatedCost]]

\* a / b > c / d for positive b and d: the quotients of these small whole
\* numbers compare as the fractions do.
QuotientGreater(a, b, c, d) == a * d > c * b

\* A faulty variant of BestByScoreCallback: a later result of equal score wins.
BestByScoreCallbackLastWins(best, current) ==
  IF current.score >= best.score THEN current ELSE best

\* current.score > best.score ? current : best
BestByScoreCallback(best, current) ==
  IF current.score > best.score THEN current ELSE best

\* A faulty variant of MostEfficientCallback: zero moves are not skipped.
MostEfficientCallbackNoSkip(best, current) ==
  IF QuotientGreater(current.score, current.moves, best.score, best.moves)
    THEN current
    ELSE best

\* The callback of mostEfficient.
MostEfficientCallback(best, current) ==
  IF current.moves = 0 THEN best
  ELSE IF best.moves = 0 THEN current
  ELSE IF QuotientGreater(current.score, current.moves, best.score, best.moves)
    THEN current
    ELSE best

\* current.executionTimeMs < best.executionTimeMs ? current : best
FastestCallback(best, current) ==
  IF current.executionTimeMs < best.executionTimeMs THEN current ELSE best

\* The callback of mostTokenEfficient.
MostTokenEfficientCallback(best, current) ==
  IF current.totalTokens = 0 THEN best
  ELSE IF best.totalTokens = 0 THEN current
  ELSE IF QuotientGreater(current.score, current.totalTokens,
                          best.score, best.totalTokens)
    THEN current
    ELSE best

\* The callback of mostCostEfficient.
MostCostEfficientCallback(best, current) ==
  IF current.estimatedCost = 0 THEN best
  ELSE IF best.estimatedCost = 0 THEN current
  ELSE IF QuotientGreater(current.score, current.estimatedCost,
                          best.score, best.estimatedCost)
    THEN current
    ELSE best

\* results.reduce(callback) without an initial value, on a non-empty array:
\* the accumulator starts as the first element and the callback is called
\* for each following element.
ReduceBestByScore(rs) ==
  LET acc[k \in 1..Len(rs)] ==
        IF k = 1 THEN rs[1] ELSE BestByScoreCallback(acc[k - 1], rs[k])
  IN  acc[Len(rs)]

ReduceMostEfficient(rs) ==
  LET acc[k \in 1..Len(rs)] ==
        IF k = 1 THEN rs[1] ELSE MostEfficientCallback(acc[k - 1], rs[k])
  IN  acc[Len(rs)]

ReduceFastest(rs) ==
  LET acc[k \in 1..Len(rs)] ==
        IF k = 1 THEN rs[1] ELSE FastestCallback(acc[k - 1], rs[k])
  IN  acc[Len(rs)]

ReduceMostTokenEfficient(rs) ==
  LET acc[k \in 1..Len(rs)] ==
        IF k = 1 THEN rs[1] ELSE MostTokenEfficientCallback(acc[k - 1], rs[k])
  IN  acc[Len(rs)]

ReduceMostCostEfficient(rs) ==
  LET acc[k \in 1..Len(rs)] ==
        IF k = 1 THEN rs[1] ELSE MostCostEfficientCallback(acc[k - 1], rs[k])
  IN  acc[Len(rs)]

MInit ==
  /\ DIdle
  /\ WIdle
  /\ RIdle
  /\ AIdle
  /\ OIdle
  /\ CIdle
  /\ TIdle
  /\ SIdle
  /\ IIdle
  /\ GIdle
  /\ NIdle
  /\ EIdle
  /\ mpc = "running"
  /\ mresults = <<>>
  /\ bestByScore = NoWorkflow
  /\ mostEfficient = NoWorkflow
  /\ fastest = NoWorkflow
  /\ mostTokenEfficient = NoWorkflow
  /\ mostCostEfficient = NoWorkflow

\* const results = await runner.runAll()
RunAllReturns ==
  /\ mpc = "running"
  /\ \E rs \in ResultArrays : mresults' = WithIndex(rs)
  /\ mpc' = "results"
  /\ UNCHANGED <<bestByScore, mostEfficient, fastest, mostTokenEfficient,
                 mostCostEfficient>>
  /\ UNCHANGED <<dvars, wvars, rvars, avars, ovars, cvars, tvars, svars, ivars,
                 gvars, nvars, evars>>

\* The five reductions over the results.
Summarise ==
  /\ mpc = "results"
  /\ bestByScore' = ReduceBestByScore(mresults)
  /\ mostEfficient' = ReduceMostEfficient(mresults)
  /\ fastest' = ReduceFastest(mresults)
  /\ mostTokenEfficient' = ReduceMostTokenEfficient(mresults)
  /\ mostCostEfficient' = ReduceMostCostEfficient(mresults)
  /\ mpc' = "summarised"
  /\ UNCHANGED mresults
  /\ UNCHANGED <<dvars, wvars, rvars, avars, ovars, cvars, tvars, svars, ivars,
                 gvars, nvars, evars>>

MNext ==
  \/ RunAllReturns
  \/ Summarise

SpecSummary == MInit /\ [][MNext]_vars

(***************************************************************************)
(* Specification of calculateCost and calculateTotalCost, which BaseAgent  *)
(* and BaseWorkflow define alike.  A number is [m, e], the value m * 2^e   *)
(* with a significand m of MantissaBits bits, and every operation rounds   *)
(* its exact result to the nearest such number, ties to the even           *)
(* significand, as the arithmetic of the source does.                      *)
(***************************************************************************)
RECURSIVE Pow2(_)
Pow2(k) == IF k = 0 THEN 1 ELSE 2 * Pow2(k - 1)

\* The whole number nearest to n / d, the even one on a tie.
RoundHalfEven(n, d) ==
  LET q == n \div d
      r == n % d
  IN  IF 2 * r > d \/ (2 * r = d /\ q % 2 = 1) THEN q + 1 ELSE q

\* The number nearest to (n / d) * 2^e.
RECURSIVE FloatRound(_, _, _)
FloatRound(n, d, e) ==
  IF n = 0 THEN FloatZero
  ELSE IF n < d * Pow2(MantissaBits - 1) THEN FloatRound(2 * n, d, e - 1)
  ELSE IF n >= d * Pow2(MantissaBits) THEN FloatRound(n, 2 * d, e + 1)
  ELSE LET m == RoundHalfEven(n, d)
       IN  IF m = Pow2(MantissaBits)
             THEN [m |-> Pow2(MantissaBits - 1), e |-> e + 1]
             ELSE [m |-> m, e |-> e]

\* The number a literal n / d of the source denotes.
FloatOf(n, d) == FloatRound(n, d, 0)

\* a / k for a whole number k the arithmetic holds exactly.
FloatDivide(a, k) == FloatRound(a.m, k, a.e)

\* a * b
FloatTimes(a, b) == FloatRound(a.m * b.m, 1, a.e + b.e)

\* a + b: an addend below a quarter of the last place of the other does not
\* change it.
FloatPlus(a, b) ==
  IF a.m = 0 THEN b
  ELSE IF b.m = 0 THEN a
  ELSE LET lo == IF a.e <= b.e THEN a ELSE b
           hi == IF a.e <= b.e THEN b ELSE a
           diff == hi.e - lo.e
       IN  IF diff > MantissaBits + 1
             THEN hi
             ELSE FloatRound(hi.m * Pow2(diff) + lo.m, 1, lo.e)

\* "gpt-4o-mini", a model whose prices are not binary fractions.
MiniModelId == "gpt-4o-mini"

\* DEFAULT_MODEL_PRICING, for the models of this model and the fallback.
DefaultModelPricing ==
  [m \in {ModelId, MiniModelId, "default"} |->
     IF m = ModelId
       THEN [promptCostPerMillion |-> FloatOf(25, 10),
             completionCostPerMillion |-> FloatOf(10, 1)]
     ELSE IF m = MiniModelId
       THEN [promptCostPerMillion |-> FloatOf(15, 100),
             completionCostPerMillion |-> FloatOf(6, 10)]
       ELSE [promptCostPerMillion |-> FloatZero,
             completionCostPerMillion |-> FloatZero]]

\* The customPricing arguments: none, or the prices of a larger model.
CustomPricings ==
  {NoPricing,
   [promptCostPerMillion |-> FloatOf(3, 1), completionCostPerMillion |-> FloatOf(15, 1),
    given |-> TRUE]}

\* customPricing || DEFAULT_MODEL_PRICING[modelName] || DEFAULT_MODEL_PRICING.default
PricingOf(modelName, customPricing) ==
  IF customPricing.given THEN customPricing
  ELSE IF modelName \in DOMAIN DefaultModelPricing \ {"default"}
    THEN DefaultModelPricing[modelName]
    ELSE DefaultModelPricing["default"]

\* A faulty variant of CalculateCost: the tokens are billed by started
\* blocks of eight.
CalculateCostByBlocks(modelName, usage, customPricing) ==
  LET pricing == PricingOf(modelName, customPricing)
      promptCost ==
        FloatTimes(FloatDivide(FloatOf((usage.promptTokens + 7) \div 8, 1), 125000),
                   pricing.promptCostPerMillion)
      completionCost ==
        FloatTimes(FloatDivide(FloatOf((usage.completionTokens + 7) \div 8, 1), 125000),
                   pricing.completionCostPerMillion)
  IN  FloatPlus(promptCost, completionCost)

\* calculateCost
CalculateCost(modelName, usage, customPricing) ==
  LET pricing == PricingOf(modelName, customPricing)
      promptCost ==
        FloatTimes(FloatDivide(FloatOf(usage.promptTokens, 1), 1000000),
                   pricing.promptCostPerMillion)
      completionCost ==
        FloatTimes(FloatDivide(FloatOf(usage.completionTokens, 1), 1000000),
                   pricing.completionCostPerMillion)
  IN  FloatPlus(promptCost, completionCost)

\* calculateTotalCost() without custom prices: the costs of the entries are
\* added to 0 in insertion order.
RECURSIVE CalculateTotalCost(_)
CalculateTotalCost(entries) ==
  IF entries = <<>>
    THEN FloatZero
    ELSE LET last == entries[Len(entries)]
         IN  FloatPlus(CalculateTotalCost(SubSeq(entries, 1, Len(entries) - 1)),
                       CalculateCost(last.modelName, last.usage, NoPricing))

\* The token counts of a usage.
CostTokens == {0, 3, 7, 100}

CostUsages ==
  {[promptTokens |-> p, completionTokens |-> c, totalTokens |-> p + c] :
     p \in CostTokens, c \in CostTokens}

CostModels == {ModelId, MiniModelId, Mistral}

\* The usage maps of an agent or a workflow: no entry, one, or two of
\* different models.
CostUsageMaps ==
  {<<>>}
    \cup {<<[modelName |-> a, usage |-> u]>> : a \in CostModels, u \in CostUsages}
    \cup {es \in {<<[modelName |-> a, usage |-> u], [modelName |-> b, usage |-> v]>> :
                      a \in CostModels, b \in CostModels,
                      u \in CostUsages, v \in CostUsages} :
            es[1].modelName # es[2].modelName}

CInit ==
  /\ DIdle
  /\ WIdle
  /\ RIdle
  /\ AIdle
  /\ OIdle
  /\ MIdle
  /\ TIdle
  /\ SIdle
  /\ IIdle
  /\ GIdle
  /\ NIdle
  /\ EIdle
  /\ cpc = "ready"
  /\ costUsage \in CostUsageMaps
  /\ costed = NoCost
  /\ totalCost = FloatZero

\* A caller computes the cost of the usage of one of the models, under the
\* default or under custom prices.
CalculatesCost ==
  /\ cpc = "ready"
  /\ \E k \in 1..Len(costUsage), cp \in CustomPricings :
       costed' = [modelName |-> costUsage[k].modelName,
                  usage |-> costUsage[k].usage,
                  customPricing |-> cp,
                  cost |-> CalculateCost(costUsage[k].modelName,
                                         costUsage[k].usage, cp)]
  /\ cpc' = "costed"
  /\ UNCHANGED <<costUsage, totalCost>>
  /\ UNCHANGED <<dvars, wvars, rvars, avars, ovars, mvars, tvars, svars, ivars,
                 gvars, nvars, evars>>

\* A caller computes the total cost.
CalculatesTotalCost ==
  /\ cpc = "ready"
  /\ totalCost' = CalculateTotalCost(costUsage)
  /\ cpc' = "totalled"
  /\ UNCHANGED <<costUsage, costed>>
  /\ UNCHANGED <<dvars, wvars, rvars, avars, ovars, mvars, tvars, svars, ivars,
                 gvars, nvars, evars>>

CNext ==
  \/ CalculatesCost
  \/ CalculatesTotalCost

SpecCost == CInit /\ [][CNext]_vars

(***************************************************************************)
(* Specification of the clock readings around one runAll(): runWorkflows   *)
(* reads Date.now() before and after runAll(), runWorkflow reads it before *)
(* and after the run of its workflow.  The run of workflow k takes         *)
(* durations[k] ticks of the clock; the clock also ticks while no run is   *)
(* under way.                                                              *)
(***************************************************************************)
MaxTimed == 3

MaxDuration == 2

MaxWaited == 1

\* The workflows whose run is under way.
Running == {k \in 1..Len(durations) : startTime[k] # NoTime /\ executionTimeMs[k] = NoTime}

\* The run of workflow k returns or throws now.
Due(k) == k \in Running /\ clock - startTime[k] = durations[k]

\* A faulty variant of ExecutionTime: the time since runWorkflows read the clock.
ExecutionTimeSinceMain(k) == clock - mainStartTime

\* Date.now() - startTime, after the run and in the catch block alike.
ExecutionTime(k) == clock - startTime[k]

\* A faulty variant of SliceEnd: batches of one workflow.
SliceEndOfOne(i0) == i0 + 1

\* this.workflows.slice(i, i + maxConcurrent): workflows i + 1 .. SliceEnd(i).
SliceEnd(i0) ==
  IF i0 + timedMaxConcurrent < Len(durations)
    THEN i0 + timedMaxConcurrent ELSE Len(durations)

\* maxConcurrent <= 0 || maxConcurrent >= this.workflows.length
TimedUnbounded == timedMaxConcurrent <= 0 \/ timedMaxConcurrent >= Len(durations)

\* runWorkflow of workflows first..last up to its await: const startTime = Date.now()
ReadStartTimes(first, last) ==
  startTime' = [k \in 1..Len(durations) |->
                  IF k \in first..last THEN clock ELSE startTime[k]]

\* const totalTime = Date.now() - startTime, after runAll() resolved.
ReadTotalTime ==
  /\ tpc' = "returned"
  /\ totalTime' = clock - mainStartTime

TInit ==
  /\ DIdle
  /\ WIdle
  /\ RIdle
  /\ AIdle
  /\ OIdle
  /\ MIdle
  /\ CIdle
  /\ SIdle
  /\ IIdle
  /\ GIdle
  /\ NIdle
  /\ EIdle
  /\ tpc = "main"
  /\ \E n \in 1..MaxTimed : durations \in [1..n -> 1..MaxDuration]
  /\ timedParallel \in BOOLEAN
  /\ timedMaxConcurrent \in 0..MaxTimed
  /\ clock = 0
  /\ startTime = [k \in 1..Len(durations) |-> NoTime]
  /\ executionTimeMs = [k \in 1..Len(durations) |-> NoTime]
  /\ batchStart = 0
  /\ mainStartTime = NoTime
  /\ totalTime = NoTime
  /\ waited = 0

\* const startTime = Date.now(); const results = await runner.runAll();
MainReadsStartTime ==
  /\ tpc = "main"
  /\ tpc' = "runAll"
  /\ mainStartTime' = clock
  /\ UNCHANGED <<durations, timedParallel, timedMaxConcurrent, clock, startTime,
                 executionTimeMs, batchStart, totalTime, waited>>
  /\ UNCHANGED <<dvars, wvars, rvars, avars, ovars, mvars, cvars, svars, ivars,
                 gvars, nvars, evars>>

\* runAll -> runSequential: the first workflow is started and awaited.
TimedStartSequential ==
  /\ tpc = "runAll"
  /\ ~timedParallel
  /\ tpc' = "sequential"
  /\ batchStart' = 1
  /\ ReadStartTimes(1, 1)
  /\ UNCHANGED <<durations, timedParallel, timedMaxConcurrent, clock,
                 executionTimeMs, mainStartTime, totalTime, waited>>
  /\ UNCHANGED <<dvars, wvars, rvars, avars, ovars, mvars, cvars, svars, ivars,
                 gvars, nvars, evars>>

\* runSequential after its await: the next workflow is started, or runAll()
\* resolves and runWorkflows reads the clock.
TimedContinueSequential ==
  /\ tpc = "sequential"
  /\ executionTimeMs[batchStart] # NoTime
  /\ IF batchStart < Len(durations)
       THEN /\ batchStart' = batchStart + 1
            /\ ReadStartTimes(batchStart + 1, batchStart + 1)
            /\ UNCHANGED <<tpc, totalTime>>
       ELSE /\ ReadTotalTime
            /\ UNCHANGED <<batchStart, startTime>>
  /\ UNCHANGED <<durations, timedParallel, timedMaxConcurrent, clock,
                 executionTimeMs, mainStartTime, waited>>
  /\ UNCHANGED <<dvars, wvars, rvars, avars, ovars, mvars, cvars, svars, ivars,
                 gvars, nvars, evars>>

\* runAll -> runParallel without a cap: every workflow is started.
TimedStartAll ==
  /\ tpc = "runAll"
  /\ timedParallel
  /\ TimedUnbounded
  /\ tpc' = "all"
  /\ ReadStartTimes(1, Len(durations))
  /\ UNCHANGED <<durations, timedParallel, timedMaxConcurrent, clock,
                 executionTimeMs, batchStart, mainStartTime, totalTime, waited>>
  /\ UNCHANGED <<dvars, wvars, rvars, avars, ovars, mvars, cvars, svars, ivars,
                 gvars, nvars, evars>>

\* return await Promise.all(promises), and runWorkflows reads the clock.
TimedReturnAll ==
  /\ tpc = "all"
  /\ \A k \in 1..Len(durations) : executionTimeMs[k] # NoTime
  /\ ReadTotalTime
  /\ UNCHANGED <<durations, timedParallel, timedMaxConcurrent, clock, startTime,
                 executionTimeMs, batchStart, mainStartTime, waited>>
  /\ UNCHANGED <<dvars, wvars, rvars, avars, ovars, mvars, cvars, svars, ivars,
                 gvars, nvars, evars>>

\* runAll -> runParallel with a cap: the first batch is started and awaited.
TimedStartBatches ==
  /\ tpc = "runAll"
  /\ timedParallel
  /\ ~TimedUnbounded
  /\ tpc' = "batch"
  /\ batchStart' = 0
  /\ ReadStartTimes(1, SliceEnd(0))
  /\ UNCHANGED <<durations, timedParallel, timedMaxConcurrent, clock,
                 executionTimeMs, mainStartTime, totalTime, waited>>
  /\ UNCHANGED <<dvars, wvars, rvars, avars, ovars, mvars, cvars, svars, ivars,
                 gvars, nvars, evars>>

\* runParallel after the await of a batch: i += maxConcurrent, and the next
\* batch is started, or runAll() resolves and runWorkflows reads the clock.
TimedContinueBatches ==
  /\ tpc = "batch"
  /\ \A k \in (batchStart + 1)..SliceEnd(batchStart) : executionTimeMs[k] # NoTime
  /\ batchStart' = SliceEnd(batchStart)
  /\ IF batchStart' < Len(durations)
       THEN /\ ReadStartTimes(batchStart' + 1, SliceEnd(batchStart'))
            /\ UNCHANGED <<tpc, totalTime>>
       ELSE /\ ReadTotalTime
            /\ UNCHANGED startTime
  /\ UNCHANGED <<durations, timedParallel, timedMaxConcurrent, clock,
                 executionTimeMs, mainStartTime, waited>>
  /\ UNCHANGED <<dvars, wvars, rvars, avars, ovars, mvars, cvars, svars, ivars,
                 gvars, nvars, evars>>

\* The run of workflow k returns or throws, and runWorkflow reads the clock.
TimedFinishWorkflow ==
  /\ \E k \in 1..Len(durations) :
       /\ Due(k)
       /\ executionTimeMs' = [executionTimeMs EXCEPT ![k] = ExecutionTime(k)]
  /\ UNCHANGED <<tpc, durations, timedParallel, timedMaxConcurrent, clock, startTime,
                 batchStart, mainStartTime, totalTime, waited>>
  /\ UNCHANGED <<dvars, wvars, rvars, avars, ovars, mvars, cvars, svars, ivars,
                 gvars, nvars, evars>>

\* The clock ticks: the runs under way go on, none of them beyond its
\* duration; or no run is under way, and the runner is late by one tick.
Tick ==
  /\ tpc \in {"runAll", "sequential", "all", "batch"}
  /\ \A k \in Running : ~Due(k)
  /\ Running = {} => waited < MaxWaited
  /\ clock' = clock + 1
  /\ waited' = IF Running = {} THEN waited + 1 ELSE waited
  /\ UNCHANGED <<tpc, durations, timedParallel, timedMaxConcurrent, startTime,
                 executionTimeMs, batchStart, mainStartTime, totalTime>>
  /\ UNCHANGED <<dvars, wvars, rvars, avars, ovars, mvars, cvars, svars, ivars,
                 gvars, nvars, evars>>

TNext ==
  \/ MainReadsStartTime
  \/ TimedStartSequential \/ TimedContinueSequential
  \/ TimedStartAll \/ TimedReturnAll
  \/ TimedStartBatches \/ TimedContinueBatches
  \/ TimedFinishWorkflow
  \/ Tick

SpecTiming == TInit /\ [][TNext]_vars

(***************************************************************************)
(* Specification of one SimpleAIAgent.run(): the loop of generateText      *)
(* calls, each of which may fail, and the handling of the failure.  The    *)
(* sendCommand tool sets gameOver during a call, also during one that      *)
(* fails at a later step.                                                  *)
(***************************************************************************)
MaxAgentIterations == 3

\* NaN, the result of parseInt on a string that does not start with a number.
NaN == 0 - 1

Header(value) == [given |-> TRUE, value |-> value]

\* The errors generateText can reject with: an APICallError of status 429
\* with or without a retry-after header of seconds, retryable or not, one of
\* status 500, one of status 400, and an error of another class; each as it
\* is, or wrapped as the lastError of a RetryError.
GenerationErrors ==
  {[api |-> TRUE, isRetryable |-> r, statusCode |-> 429, retryAfter |-> h, wrapped |-> w] :
     r \in BOOLEAN, h \in {NoHeader, Header(<<"2">>), Header(<<"3", "0">>)},
     w \in BOOLEAN}
  \cup {[api |-> TRUE, isRetryable |-> TRUE, statusCode |-> 500, retryAfter |-> NoHeader,
         wrapped |-> w] : w \in BOOLEAN}
  \cup {[api |-> TRUE, isRetryable |-> FALSE, statusCode |-> 400, retryAfter |-> NoHeader,
         wrapped |-> w] : w \in BOOLEAN}
  \cup {[api |-> FALSE, isRetryable |-> FALSE, statusCode |-> 0, retryAfter |-> NoHeader,
         wrapped |-> w] : w \in BOOLEAN}

\* parseInt(t): the number of the leading decimal digits of t, or NaN.
ParseIntPrefix(t) ==
  IF DigitRun(t, 1) = <<>> THEN NaN ELSE ParseInt(DigitRun(t, 1))

\* parseInt(error.responseHeaders?.["retry-after"] ?? "15")
RetryAfter(error) ==
  ParseIntPrefix(IF error.retryAfter.given THEN error.retryAfter.value ELSE <<"1", "5">>)

\* retryAfter * 1000
Milliseconds(seconds) == IF seconds = NaN THEN NaN ELSE seconds * 1000

\* if (error instanceof RetryError && error.lastError) error = error.lastError
LastErrorOf(error) == IF error.wrapped THEN [error EXCEPT !.wrapped = FALSE] ELSE error

\* A faulty variant of IsRetried: isRetryable is not looked at.
IsRetriedWhenever429(error) == ~error.wrapped /\ error.api /\ error.statusCode = 429

\* The catch block of the loop: an APICallError that is retryable and of
\* status 429 is waited for; every other error is thrown again.
IsRetried(error) ==
  ~error.wrapped /\ error.api /\ error.isRetryable /\ error.statusCode = 429

SInit ==
  /\ DIdle
  /\ WIdle
  /\ RIdle
  /\ AIdle
  /\ OIdle
  /\ MIdle
  /\ CIdle
  /\ TIdle
  /\ IIdle
  /\ GIdle
  /\ NIdle
  /\ EIdle
  /\ spc = "loop"
  /\ agentMaxIterations \in 1..MaxAgentIterations
  /\ iterationCount = 0
  /\ gameOver = FALSE
  /\ lastError = NoError
  /\ delayMs = 0
  /\ attempts = 0
  /\ ended = "none"

\* while (!this.gameOver && iterationCount < this.maxIterations):
\* iterationCount++, and generateText is called.
EnterIteration ==
  /\ spc = "loop"
  /\ ~gameOver /\ iterationCount < agentMaxIterations
  /\ iterationCount' = iterationCount + 1
  /\ attempts' = attempts + 1
  /\ spc' = "generateText"
  /\ UNCHANGED <<agentMaxIterations, gameOver, lastError, delayMs, ended>>
  /\ UNCHANGED <<dvars, wvars, rvars, avars, ovars, mvars, cvars, tvars, ivars,
                 gvars, nvars, evars>>

\* The loop condition is false: run() returns.
LeaveLoop ==
  /\ spc = "loop"
  /\ ~(~gameOver /\ iterationCount < agentMaxIterations)
  /\ spc' = "returned"
  /\ ended' = "loop"
  /\ UNCHANGED <<agentMaxIterations, iterationCount, gameOver, lastError, delayMs,
                 attempts>>
  /\ UNCHANGED <<dvars, wvars, rvars, avars, ovars, mvars, cvars, tvars, ivars,
                 gvars, nvars, evars>>

\* generateText resolved; its sendCommand calls may have ended the game.
GenerateTextResolves ==
  /\ spc = "generateText"
  /\ \E over \in BOOLEAN : gameOver' = (gameOver \/ over)
  /\ lastError' = NoError
  /\ spc' = "loop"
  /\ UNCHANGED <<agentMaxIterations, iterationCount, delayMs, attempts, ended>>
  /\ UNCHANGED <<dvars, wvars, rvars, avars, ovars, mvars, cvars, tvars, ivars,
                 gvars, nvars, evars>>

\* generateText rejected: the catch block of the loop waits and continues, or
\* throws to the catch block of run(), which logs the error and returns.
GenerateTextRejects ==
  /\ spc = "generateText"
  /\ \E e \in GenerationErrors, over \in BOOLEAN :
       /\ gameOver' = (gameOver \/ over)
       /\ lastError' = e
       /\ IF IsRetried(LastErrorOf(e))
            THEN /\ delayMs' = Milliseconds(RetryAfter(LastErrorOf(e)))
                 /\ spc' = "setTimeout"
                 /\ ended' = ended
            ELSE /\ delayMs' = delayMs
                 /\ spc' = "returned"
                 /\ ended' = "error"
  /\ UNCHANGED <<agentMaxIterations, iterationCount, attempts>>
  /\ UNCHANGED <<dvars, wvars, rvars, avars, ovars, mvars, cvars, tvars, ivars,
                 gvars, nvars, evars>>

\* A faulty variant of TimeoutFires: the attempt that was waited for is given
\* back to the budget of iterations.
TimeoutFiresGivesBack ==
  /\ spc = "setTimeout"
  /\ spc' = "loop"
  /\ iterationCount' = iterationCount - 1
  /\ UNCHANGED <<agentMaxIterations, gameOver, lastError, delayMs, attempts, ended>>
  /\ UNCHANGED <<dvars, wvars, rvars, avars, ovars, mvars, cvars, tvars, ivars,
                 gvars, nvars, evars>>

\* The timer fired: continue.
TimeoutFires ==
  /\ spc = "setTimeout"
  /\ spc' = "loop"
  /\ UNCHANGED <<agentMaxIterations, iterationCount, gameOver, lastError, delayMs,
                 attempts, ended>>
  /\ UNCHANGED <<dvars, wvars, rvars, avars, ovars, mvars, cvars, tvars, ivars,
                 gvars, nvars, evars>>

SNext ==
  \/ EnterIteration
  \/ LeaveLoop
  \/ GenerateTextResolves
  \/ GenerateTextRejects
  \/ TimeoutFires

SpecSimpleAgent == SInit /\ [][SNext]_vars

\* Every promise run() awaits settles: generateText resolves or rejects, and
\* the timer of setTimeout fires.
SpecSimpleAgentSettles == SInit /\ [][SNext]_vars /\ WF_vars(SNext)

(***************************************************************************)
(* Specification of the objects the runs of one WorkflowRunner work on:    *)
(* the workflow objects the caller gave, the instance runWorkflow creates, *)
(* the Dialogue and the session of each run.  Objects are told apart by    *)
(* their identity; the runs are interleaved at their awaits in every       *)
(* order, which covers the sequential and the parallel modes.              *)
(***************************************************************************)
MaxRuns == 2

\* The workflow objects of the caller.
GivenObjects == {1, 2}

\* A workflow object as its constructor leaves it when the configuration has
\* the given logger and no logPath.
NewWorkflow(logger) == [logPath |-> Undefined, logger |-> logger, tracked |-> 0]

\* A faulty variant of CreateWorkflowWithLogger: the given workflow is run.
CreateWorkflowWithLoggerReturnsGiven(k) == given[k]

\* createWorkflowWithLogger: new WorkflowClass({...}), an object of a new identity.
CreateWorkflowWithLogger(k) == nextObject

\* The function f with the value v at x.
Put(f, x, v) == [y \in DOMAIN f \cup {x} |-> IF y = x THEN v ELSE f[y]]

\* The function of sets f with the run k added at x.
Used(f, x, k) == Put(f, x, (IF x \in DOMAIN f THEN f[x] ELSE {}) \cup {k})

IInit ==
  /\ DIdle
  /\ WIdle
  /\ RIdle
  /\ AIdle
  /\ OIdle
  /\ MIdle
  /\ CIdle
  /\ TIdle
  /\ SIdle
  /\ GIdle
  /\ NIdle
  /\ EIdle
  /\ \E n \in 1..MaxRuns : given \in [1..n -> GivenObjects]
  /\ heap = [o \in GivenObjects |-> NewWorkflow(Undefined)]
  /\ runs = [k \in 1..Len(given) |->
               [pc |-> "notStarted", instance |-> Undefined, dialogue |-> Undefined,
                sessionId |-> Undefined]]
  /\ nextObject = 3
  /\ nextSession = 1
  /\ dialogueUsers = <<>>
  /\ sessionUsers = <<>>

\* runWorkflow up to its await: the instance is created with the logger of
\* the workflow, and its run() sets logPath and logger where they are
\* undefined and calls startGame.
RunWorkflowStarts ==
  /\ \E k \in 1..Len(given) :
       /\ runs[k].pc = "notStarted"
       /\ LET o == CreateWorkflowWithLogger(k)
              created == IF o \in DOMAIN heap THEN heap[o] ELSE NewWorkflow(given[k])
          IN  /\ heap' = Put(heap, o,
                             [created EXCEPT
                                !.logPath = IF @ = Undefined THEN o ELSE @,
                                !.logger = IF @ = Undefined THEN o ELSE @])
              /\ runs' = [runs EXCEPT ![k].pc = "startGame", ![k].instance = o]
  /\ nextObject' = nextObject + 1
  /\ UNCHANGED <<given, nextSession, dialogueUsers, sessionUsers>>
  /\ UNCHANGED <<dvars, wvars, rvars, avars, ovars, mvars, cvars, tvars, svars,
                 gvars, nvars, evars>>

\* startGame returned the session the game API created, or "" (Undefined)
\* when it failed; sendCommand(sessionId, "verbose") is called.
StartGameReturns ==
  /\ \E k \in 1..Len(given), ok \in BOOLEAN :
       /\ runs[k].pc = "startGame"
       /\ LET sid == IF ok THEN nextSession ELSE Undefined
          IN  /\ runs' = [runs EXCEPT ![k].pc = "verbose", ![k].sessionId = sid]
              /\ sessionUsers' = Used(sessionUsers, sid, k)
       /\ nextSession' = IF ok THEN nextSession + 1 ELSE nextSession
  /\ UNCHANGED <<given, heap, nextObject, dialogueUsers>>
  /\ UNCHANGED <<dvars, wvars, rvars, avars, ovars, mvars, cvars, tvars, svars,
                 gvars, nvars, evars>>

\* sendCommand returned: const dialogue = new Dialogue(...); dialogue.user(text);
\* and gameLoop(dialogue) is called.
DialogueCreated ==
  /\ \E k \in 1..Len(given) :
       /\ runs[k].pc = "verbose"
       /\ runs' = [runs EXCEPT ![k].pc = "gameLoop", ![k].dialogue = nextObject]
       /\ dialogueUsers' = Used(dialogueUsers, nextObject, k)
  /\ nextObject' = nextObject + 1
  /\ UNCHANGED <<given, heap, nextSession, sessionUsers>>
  /\ UNCHANGED <<dvars, wvars, rvars, avars, ovars, mvars, cvars, tvars, svars,
                 gvars, nvars, evars>>

\* gameLoop returned: it appended to the dialogue and tracked its usage in
\* the modelUsage of the instance; sendCommand(sessionId, command) is called.
GameLoopReturns ==
  /\ \E k \in 1..Len(given) :
       /\ runs[k].pc = "gameLoop"
       /\ runs' = [runs EXCEPT ![k].pc = "sendCommand"]
       /\ heap' = [heap EXCEPT ![runs[k].instance].tracked = @ + 1]
       /\ dialogueUsers' = Used(dialogueUsers, runs[k].dialogue, k)
       /\ sessionUsers' = Used(sessionUsers, runs[k].sessionId, k)
  /\ UNCHANGED <<given, nextObject, nextSession>>
  /\ UNCHANGED <<dvars, wvars, rvars, avars, ovars, mvars, cvars, tvars, svars,
                 gvars, nvars, evars>>

\* sendCommand returned: dialogue.user(text), and run() returns after its
\* one turn.
CommandReturns ==
  /\ \E k \in 1..Len(given) :
       /\ runs[k].pc = "sendCommand"
       /\ runs' = [runs EXCEPT ![k].pc = "returned"]
       /\ dialogueUsers' = Used(dialogueUsers, runs[k].dialogue, k)
  /\ UNCHANGED <<given, heap, nextObject, nextSession, sessionUsers>>
  /\ UNCHANGED <<dvars, wvars, rvars, avars, ovars, mvars, cvars, tvars, svars,
                 gvars, nvars, evars>>

INext ==
  \/ RunWorkflowStarts
  \/ StartGameReturns
  \/ DialogueCreated
  \/ GameLoopReturns
  \/ CommandReturns

SpecIsolation == IInit /\ [][INext]_vars

(***************************************************************************)
(* Specification of one runAgents(agents, maxConcurrent) call of the       *)
(* command-line program of the simple agents: the loop over the batches,   *)
(* cut at its await of Promise.all.  The run() of an agent resolves.       *)
(***************************************************************************)
MaxAgents == 4

\* agents.slice(i, i + maxConcurrent), as the agents i + 1 .. i + maxConcurrent
\* that exist.
AgentBatch(i0) ==
  {k \in 1..numAgents : i0 < k /\ k <= i0 + agentsMaxConcurrent}

GInit ==
  /\ DIdle
  /\ WIdle
  /\ RIdle
  /\ AIdle
  /\ OIdle
  /\ MIdle
  /\ CIdle
  /\ TIdle
  /\ SIdle
  /\ IIdle
  /\ NIdle
  /\ EIdle
  /\ gpc = "for"
  /\ numAgents \in 1..MaxAgents
  /\ agentsMaxConcurrent \in 0..MaxAgents
  /\ agentsIndex = 0
  /\ agentRun = [k \in 1..numAgents |-> "notStarted"]
  /\ runCount = [k \in 1..numAgents |-> 0]

\* i < agents.length: the batch is sliced, and the callback of map runs for
\* each of its agents up to the await of agent.run().
StartBatch ==
  /\ gpc = "for"
  /\ agentsIndex < numAgents
  /\ agentRun' = [k \in 1..numAgents |->
                    IF k \in AgentBatch(agentsIndex) THEN "running" ELSE agentRun[k]]
  /\ runCount' = [k \in 1..numAgents |->
                    IF k \in AgentBatch(agentsIndex) THEN runCount[k] + 1
                                                     ELSE runCount[k]]
  /\ gpc' = "await"
  /\ UNCHANGED <<numAgents, agentsMaxConcurrent, agentsIndex>>
  /\ UNCHANGED <<dvars, wvars, rvars, avars, ovars, mvars, cvars, tvars, svars, ivars,
                 nvars, evars>>

\* agent.run() of a running agent resolves.
AgentRunResolves ==
  /\ \E k \in 1..numAgents :
       /\ agentRun[k] = "running"
       /\ agentRun' = [agentRun EXCEPT ![k] = "resolved"]
  /\ UNCHANGED <<gpc, numAgents, agentsMaxConcurrent, agentsIndex, runCount>>
  /\ UNCHANGED <<dvars, wvars, rvars, avars, ovars, mvars, cvars, tvars, svars, ivars,
                 nvars, evars>>

\* Promise.all of the batch resolved: i += maxConcurrent.
BatchResolved ==
  /\ gpc = "await"
  /\ \A k \in AgentBatch(agentsIndex) : agentRun[k] = "resolved"
  /\ agentsIndex' = agentsIndex + agentsMaxConcurrent
  /\ gpc' = "for"
  /\ UNCHANGED <<numAgents, agentsMaxConcurrent, agentRun, runCount>>
  /\ UNCHANGED <<dvars, wvars, rvars, avars, ovars, mvars, cvars, tvars, svars, ivars,
                 nvars, evars>>

\* i < agents.length is false: runAgents returns.
ReturnAgents ==
  /\ gpc = "for"
  /\ ~(agentsIndex < numAgents)
  /\ gpc' = "returned"
  /\ UNCHANGED <<numAgents, agentsMaxConcurrent, agentsIndex, agentRun, runCount>>
  /\ UNCHANGED <<dvars, wvars, rvars, avars, ovars, mvars, cvars, tvars, svars, ivars,
                 nvars, evars>>

GNext ==
  \/ StartBatch
  \/ AgentRunResolves
  \/ BatchResolved
  \/ ReturnAgents

\* Every run() that was started resolves, and runAgents goes on after it.
SpecRunAgents == GInit /\ [][GNext]_vars /\ WF_vars(GNext)

(***************************************************************************)
(* Specification of one AgentRunner.run(): startGame, then runAutonomous   *)
(* or runInteractive, cut at their awaits, and the result built after them *)
(* or in the catch block.  The game agent sets gameStarted in startGame    *)
(* and never clears it.                                                    *)
(***************************************************************************)
MaxRunnerIterations == 3

MaxInputs == 2

\* The lines the user types: the special commands, and a message for the agent.
Inputs == {"exit", "help", "auto", "stats", "say"}

\* The result of the try block: completed: true.
CompletedResult == [returned |-> TRUE, completed |-> TRUE]

\* The result of the catch block: completed: false.
FailedResult == [returned |-> TRUE, completed |-> FALSE]

\* runAutonomous returns: to the loop of runInteractive that called it, or
\* to run(), which builds its result.
LeaveAutonomous(reason) ==
  /\ stoppedBy' = reason
  /\ inAuto' = FALSE
  /\ IF inAuto
       THEN /\ npc' = "question"
            /\ agentResult' = agentResult
       ELSE /\ npc' = "returned"
            /\ agentResult' = CompletedResult

NInit ==
  /\ DIdle
  /\ WIdle
  /\ RIdle
  /\ AIdle
  /\ OIdle
  /\ MIdle
  /\ CIdle
  /\ TIdle
  /\ SIdle
  /\ IIdle
  /\ GIdle
  /\ EIdle
  /\ npc = "startGame"
  /\ interactive \in BOOLEAN
  /\ runnerMaxIterations \in 1..MaxRunnerIterations
  /\ iterations = 0
  /\ gameStarted = FALSE
  /\ inAuto = FALSE
  /\ inputsRead = 0
  /\ stoppedBy = "none"
  /\ agentResult = NoAgentResult

\* await this.agent.startGame() resolved: the mode is entered.
RunnerStartGameResolves ==
  /\ npc = "startGame"
  /\ gameStarted' = TRUE
  /\ iterations' = 0
  /\ npc' = IF interactive THEN "question" ELSE "while"
  /\ UNCHANGED <<interactive, runnerMaxIterations, inAuto, inputsRead, stoppedBy,
                 agentResult>>
  /\ UNCHANGED <<dvars, wvars, rvars, avars, ovars, mvars, cvars, tvars, svars, ivars,
                 gvars, evars>>

\* await this.agent.startGame() rejected, in the orchestrator's processing of
\* the initial text: the catch block returns the result of a failed run.
RunnerStartGameRejects ==
  /\ npc = "startGame"
  /\ gameStarted' = TRUE
  /\ stoppedBy' = "error"
  /\ agentResult' = FailedResult
  /\ npc' = "returned"
  /\ UNCHANGED <<interactive, runnerMaxIterations, iterations, inAuto, inputsRead>>
  /\ UNCHANGED <<dvars, wvars, rvars, avars, ovars, mvars, cvars, tvars, svars, ivars,
                 gvars, evars>>

\* while (iterations < maxIterations): iterations++, the test of gameStarted,
\* and the call of processMessage; or the loop ends.
Iterate ==
  /\ npc = "while"
  /\ IF iterations < runnerMaxIterations
       THEN /\ iterations' = iterations + 1
            /\ IF ~gameStarted
                 THEN LeaveAutonomous("gameEnded")
                 ELSE /\ npc' = "processMessage"
                      /\ UNCHANGED <<inAuto, stoppedBy, agentResult>>
       ELSE /\ iterations' = iterations
            /\ LeaveAutonomous("maxIterations")
  /\ UNCHANGED <<interactive, runnerMaxIterations, gameStarted, inputsRead>>
  /\ UNCHANGED <<dvars, wvars, rvars, avars, ovars, mvars, cvars, tvars, svars, ivars,
                 gvars, evars>>

\* processMessage resolved: if (iterations >= maxIterations) break.
ProcessMessageResolves ==
  /\ npc = "processMessage"
  /\ IF iterations >= runnerMaxIterations
       THEN LeaveAutonomous("maxIterations")
       ELSE /\ npc' = "while"
            /\ UNCHANGED <<inAuto, stoppedBy, agentResult>>
  /\ UNCHANGED <<interactive, runnerMaxIterations, iterations, gameStarted,
                 inputsRead>>
  /\ UNCHANGED <<dvars, wvars, rvars, avars, ovars, mvars, cvars, tvars, svars, ivars,
                 gvars, evars>>

\* processMessage rejected: nothing in runAutonomous or runInteractive catches
\* it, and the catch block of run() returns the result of a failed run.
ProcessMessageRejects ==
  /\ npc = "processMessage"
  /\ stoppedBy' = "error"
  /\ inAuto' = FALSE
  /\ agentResult' = FailedResult
  /\ npc' = "returned"
  /\ UNCHANGED <<interactive, runnerMaxIterations, iterations, gameStarted,
                 inputsRead>>
  /\ UNCHANGED <<dvars, wvars, rvars, avars, ovars, mvars, cvars, tvars, svars, ivars,
                 gvars, evars>>

\* The user answered the prompt of runInteractive.
Question ==
  /\ npc = "question"
  /\ \E input \in Inputs :
       /\ input # "exit" => inputsRead < MaxInputs
       /\ inputsRead' = inputsRead + 1
       /\ npc' = CASE input = "exit" -> "returned"
                   [] input = "auto" -> "while"
                   [] input = "say" -> "interactiveMessage"
                   [] OTHER -> "question"
       /\ agentResult' = IF input = "exit" THEN CompletedResult ELSE agentResult
       /\ inAuto' = (input = "auto")
       /\ iterations' = IF input = "auto" THEN 0 ELSE iterations
  /\ UNCHANGED <<interactive, runnerMaxIterations, gameStarted, stoppedBy>>
  /\ UNCHANGED <<dvars, wvars, rvars, avars, ovars, mvars, cvars, tvars, svars, ivars,
                 gvars, evars>>

\* processMessage of the user's input settled; a rejection is printed.
InteractiveMessageSettles ==
  /\ npc = "interactiveMessage"
  /\ npc' = "question"
  /\ UNCHANGED <<interactive, runnerMaxIterations, iterations, gameStarted, inAuto,
                 inputsRead, stoppedBy, agentResult>>
  /\ UNCHANGED <<dvars, wvars, rvars, avars, ovars, mvars, cvars, tvars, svars, ivars,
                 gvars, evars>>

NNext ==
  \/ RunnerStartGameResolves
  \/ RunnerStartGameRejects
  \/ Iterate
  \/ ProcessMessageResolves
  \/ ProcessMessageRejects
  \/ Question
  \/ InteractiveMessageSettles

SpecAgentRunner == NInit /\ [][NNext]_vars

(***************************************************************************)
(* Specification of one MemoryAgent under calls of its add_memory tool.    *)
(* An entry is its id and its importance, which the tool takes from 1 to   *)
(* 10; the model takes it from 1 to MaxImportance.                         *)
(***************************************************************************)
MaxMemories == 2

MaxAdds == 4

MaxImportance == 3

\* The entry m put into a list sorted by importance, after the entries that
\* are not more important than it.
InsertByImportance(sorted, m) ==
  LET before == {k \in 1..Len(sorted) : sorted[k].importance <= m.importance}
      n == Cardinality(before)
  IN  SubSeq(sorted, 1, n) \o <<m>> \o SubSeq(sorted, n + 1, Len(sorted))

RECURSIVE SortFrom(_, _, _)
SortFrom(ms, k, sorted) ==
  IF k > Len(ms) THEN sorted
  ELSE SortFrom(ms, k + 1, InsertByImportance(sorted, ms[k]))

\* memories.sort((a, b) => a.importance - b.importance): ascending, and
\* entries of equal importance keep their order.
SortByImportance(ms) == SortFrom(ms, 1, <<>>)

\* A faulty variant of Evict: the oldest entries are removed.
EvictOldest(ms, max) ==
  IF Len(ms) > max THEN SubSeq(ms, Len(ms) - max + 1, Len(ms)) ELSE ms

\* if (memories.length > maxMemories): sort, then
\* memories.slice(memories.length - maxMemories).
Evict(ms, max) ==
  IF Len(ms) > max
    THEN SubSeq(SortByImportance(ms), Len(ms) - max + 1, Len(ms))
    ELSE ms

EInit ==
  /\ DIdle
  /\ WIdle
  /\ RIdle
  /\ AIdle
  /\ OIdle
  /\ MIdle
  /\ CIdle
  /\ TIdle
  /\ SIdle
  /\ IIdle
  /\ GIdle
  /\ NIdle
  /\ maxMemories \in 1..MaxMemories
  /\ memories = <<>>
  /\ memoryCounter = 0
  /\ lastAdded = NoMemory
  /\ lastEvicted = {}

\* addMemory(type, content, importance, metadata)
AddMemory ==
  /\ memoryCounter < MaxAdds
  /\ \E importance \in 1..MaxImportance :
       LET newMemory == [id |-> memoryCounter + 1, importance |-> importance]
           pushed == Append(memories, newMemory)
       IN  /\ memories' = Evict(pushed, maxMemories)
           /\ lastAdded' = newMemory
           /\ lastEvicted' = {pushed[k] : k \in 1..Len(pushed)}
                               \ {memories'[k] : k \in 1..Len(memories')}
  /\ memoryCounter' = memoryCounter + 1
  /\ UNCHANGED maxMemories
  /\ UNCHANGED <<dvars, wvars, rvars, avars, ovars, mvars, cvars, tvars, svars, ivars,
                 gvars, nvars>>

ENext == AddMemory

SpecMemory == EInit /\ [][ENext]_vars

(***************************************************************************)
(* Claims about Dialogue.                                                  *)
(***************************************************************************)
Min(a, b) == IF a < b THEN a ELSE b

\* C1: after any sequence of user/assistant/system/tool appends on a Dialogue
\* of capacity N, the number of stored messages is at most N.
C1_LengthAtMostLimit == Len(dlg.messages) <= dlg.limit

\* Witness of C1: more messages were appended than the capacity holds, so the
\* trim has removed some.
C1_Witness ==
  /\ dlg.limit >= 1
  /\ Len(appended) > dlg.limit
  /\ Len(dlg.messages) = dlg.limit

\* C2: after k appends the stored messages are exactly the last min(N, k)
\* appended messages, in append order.
C2_KeepsMostRecent ==
  LET k == Len(appended)
      n == Min(dlg.limit, k)
  IN  dlg.messages = SubSeq(appended, k - n + 1, k)

\* Witness of C2: an eviction happened and the newest message differs from the
\* evicted oldest one, so dropping from the wrong end would show.
C2_Witness ==
  /\ dlg.limit >= 1
  /\ Len(appended) > dlg.limit
  /\ appended[1] # appended[Len(appended)]
  /\ dlg.messages[Len(dlg.messages)] = appended[Len(appended)]

(***************************************************************************)
(* Claims about BaseWorkflow.run.                                          *)
(***************************************************************************)
Matching == {k \in 1..Len(responses) : GameEnded(responses[k])}

\* C3: a run in which nothing raises and no command response matches a
\* termination phrase performs exactly maxIterations turns (as many decisions,
\* as many submitted commands after the setup command) and returns
\* gameEnded = false through the normal return.
C3_RunsMaxIterations ==
  (pc = "returned" /\ thrown = "none" /\ Matching = {}) =>
    /\ decisions = maxIterations
    /\ Len(responses) = maxIterations
    /\ Len(commandsSent) = maxIterations + 1
    /\ result.returned
    /\ result.gameEnded = FALSE

\* Witness of C3: a returned run of at least two turns without any match.
C3_Witness ==
  /\ pc = "returned"
  /\ thrown = "none"
  /\ Matching = {}
  /\ maxIterations >= 2
  /\ Len(responses) = maxIterations

\* C4: no command follows a response that matches a termination phrase; a run
\* whose k-th response is the first match has performed exactly k turns and
\* returns gameEnded = true; gameEnded is true iff a response matched; and a
\* response "You have DIED" is a match.
C4_StopsAtFirstMatch ==
  /\ \A k \in 1..Len(responses) :
       GameEnded(responses[k]) =>
         /\ k = Len(responses)
         /\ k <= maxIterations
         /\ decisions = k
         /\ Len(commandsSent) = k + 1
  /\ pc = "returned" => (result.gameEnded <=> Matching # {})
  /\ \A k \in 1..Len(responses) :
       (responses[k] = TextDied /\ pc = "returned" /\ thrown = "none") => result.gameEnded

\* Witness of C4: the second response is "You have DIED", the run made two
\* turns and returned gameEnded = true with iterations to spare.
C4_Witness ==
  /\ pc = "returned"
  /\ maxIterations > 2
  /\ Len(responses) = 2
  /\ responses[2] = TextDied
  /\ decisions = 2
  /\ result.gameEnded

\* C5: when a step of the try block raises, run() returns score 0, moves 0 and
\* gameEnded = false, whatever had been extracted before.
C5_FailureReportsZero ==
  (pc = "returned" /\ thrown # "none") =>
    /\ result.returned
    /\ result.score = 0
    /\ result.moves = 0
    /\ result.gameEnded = FALSE

\* Witness of C5: the decision or the submission raised after a turn had
\* extracted a non-zero score and moves.
C5_Witness ==
  /\ pc = "returned"
  /\ thrown \in {"decide", "submit"}
  /\ score > 0
  /\ moves > 0
  /\ result.score = 0

\* C16: in a run in which nothing raises, no step lowers the moves value of
\* the workflow.
C16_MovesNeverDecrease == [][thrown' = "none" => moves' >= moves]_vars

\* The texts of the run: the initial text and the command responses.
RunTexts == <<initialText>> \o responses

\* The number of the latest of the texts that matches, 0 when none does.
RECURSIVE LatestCounter(_, _)
LatestCounter(texts, matchOf) ==
  IF texts = <<>>
    THEN 0
    ELSE LET t == texts[Len(texts)]
         IN  IF matchOf[t].matched
               THEN matchOf[t].value
               ELSE LatestCounter(SubSeq(texts, 1, Len(texts) - 1), matchOf)

\* C17: a run in which nothing raised returns as score the number of the
\* latest text, among the initial text and all command responses, that holds
\* a score marker, and as moves the number of the latest text that holds a
\* moves marker, each 0 when no text holds its marker.
C17_ReportsLatestCounters ==
  (pc = "returned" /\ thrown = "none") =>
    /\ result.score = LatestCounter(RunTexts, ScoreMatchOf)
    /\ result.moves = LatestCounter(RunTexts, MovesMatchOf)

\* Witness of C17: the final response holds only a moves marker, after an
\* earlier text with both markers: the score is the earlier one, the moves
\* are those of the final response.
C17_Witness ==
  /\ pc = "returned"
  /\ thrown = "none"
  /\ Len(responses) >= 2
  /\ responses[Len(responses)] = TextMovesOnly
  /\ responses[Len(responses) - 1] = TextWest
  /\ TextScoreMoves \in {initialText} \cup {responses[k] : k \in 1..Len(responses)}
  /\ result.score = 10
  /\ result.moves = 3

\* The payloads startGame and sendCommand return when the game API fails.
ErrorTexts == {StartErrorText(GamePath)} \cup {CommandErrorText(c) : c \in Commands}

\* The start of the session failed, or some command of the turn loop did.
TransportFailed ==
  \/ pc \notin {"start", "setup"} /\ initialText \in ErrorTexts
  \/ \E k \in 1..Len(responses) : responses[k] \in ErrorTexts

IsUserMessage(m) == m.role = "user"

\* C27: in a run in which the game API failed and no step raised, the error
\* text is the last user message of the dialogue when it was received, an
\* untrimmed dialogue holds as its user messages the initial text and every
\* response, error texts included, and the run has returned only after a
\* termination phrase matched or after maxIterations turns.
C27_TransportFailureIsGameText ==
  (thrown = "none" /\ TransportFailed) =>
    /\ pc \in {"loop", "exit"} =>
         /\ Len(dialogue.messages) >= 1
         /\ dialogue.messages[Len(dialogue.messages)]
              = Message("user", MessageContent(Str(text)))
    /\ dialogueLimit > MaxIterations =>
         SelectSeq(dialogue.messages, IsUserMessage) =
           <<Message("user", MessageContent(Str(initialText)))>>
             \o [k \in 1..Len(responses) |->
                   Message("user", MessageContent(Str(responses[k])))]
    /\ pc = "returned" =>
         /\ result.returned
         /\ IF result.gameEnded
              THEN GameEnded(text)
              ELSE decisions = maxIterations /\ Len(responses) = maxIterations

\* Witness of C27: the session could not be started, so that every command
\* failed as well, and the run returned after its three turns.
C27_Witness ==
  /\ pc = "returned"
  /\ thrown = "none"
  /\ sessionId = NoSession
  /\ initialText = StartErrorText(GamePath)
  /\ maxIterations = 3
  /\ Len(responses) = 3
  /\ \A k \in 1..3 : responses[k] \in ErrorTexts
  /\ ~result.gameEnded

\* C30: when run() starts to use the Dialogue it created, before the first
\* gameLoop call, the first message of the Dialogue is a system message.
C30_DialogueStartsWithSystemMessage ==
  (pc = "loop" /\ decisions = 0 /\ thrown = "none") =>
    /\ Len(dialogue.messages) >= 1
    /\ dialogue.messages[1].role = "system"

\* The last message of the dialogue d is the user message of the text t.
LastIsUserMessage(d, t) ==
  /\ Len(d.messages) >= 1
  /\ d.messages[Len(d.messages)] = Message("user", MessageContent(Str(t)))

\* What a step of run() does in the turn loop.
TurnStep ==
  /\ decisions' - Len(responses') \in {0, 1}
  /\ (decisions' = decisions + 1) =>
       /\ pc = "loop" /\ pc' = "submit"
       /\ Len(responses) = decisions
       /\ LastIsUserMessage(dialogue, text)
       /\ score' = ExtractScore(text, score)
       /\ moves' = ExtractMoves(text, moves)
       /\ commandsSent' = commandsSent
  /\ (Len(responses') = Len(responses) + 1) =>
       /\ pc = "submit"
       /\ decisions' = decisions /\ decisions = Len(responses) + 1
       /\ commandsSent' = Append(commandsSent, command)
       /\ text' = responses'[Len(responses')]
       /\ LastIsUserMessage(dialogue', text')
       /\ pc' = IF GameEnded(text') THEN "exit" ELSE "loop"
  /\ (Len(commandsSent') > Len(commandsSent) /\ pc # "setup") =>
       Len(responses') = Len(responses) + 1

\* C32: the turns of a run are sequential and ordered: a decision is taken
\* only when the response of every earlier turn has been appended to the
\* dialogue as its last user message, after the counters were extracted from
\* that text; the command is submitted after the decision, its response is
\* appended and then tested for termination; at most one decision is without
\* its response at any time.
C32_TurnsAreSequential ==
  [][TurnStep]_vars

\* Witness of C32: the second decision was taken, and its command is in
\* flight, after the response of the first turn.
C32_Witness ==
  /\ pc = "submit"
  /\ decisions = 2
  /\ Len(responses) = 1
  /\ Len(commandsSent) = 2
  /\ LastIsUserMessage(dialogue, responses[1])

\* C33: once the session start has returned and no step raised, "verbose" was
\* submitted exactly once, as the first command and before any decision,
\* also when the start failed; the text, the dialogue and the counters the
\* turn loop starts from are those of the initial text, not of the response
\* to "verbose".
C33_VerboseOnceAndDiscarded ==
  /\ pc \in {"start", "setup"} => (commandsSent = <<>> /\ decisions = 0)
  /\ (pc \notin {"start", "setup"} /\ thrown = "none") =>
       /\ Len(commandsSent) >= 1
       /\ commandsSent[1] = Verbose
       /\ Len(commandsSent) = 1 + Len(responses)
       /\ \A k \in 2..Len(commandsSent) : commandsSent[k] \in Commands
  /\ (pc = "loop" /\ decisions = 0 /\ thrown = "none") =>
       /\ text = initialText
       /\ dialogue.messages = <<Message("user", MessageContent(Str(initialText)))>>
       /\ score = 0 /\ moves = 0 /\ gameEnded = FALSE

\* Witness of C33: the session start failed, "verbose" was submitted all the
\* same, and the turn loop is about to start.
C33_Witness ==
  /\ pc = "loop"
  /\ decisions = 0
  /\ thrown = "none"
  /\ sessionId = NoSession
  /\ commandsSent = <<Verbose>>
  /\ maxIterations >= 1

\* C36: a run whose initial text matches a termination phrase, with
\* maxIterations >= 1 and without a step that raised, has not ended before a
\* decision was taken and a command submitted; the gameEnded it returns is
\* true exactly when the response to a command matched.
C36_InitialTextIsNotTested ==
  (initialText \in GameTexts /\ GameEnded(initialText) /\ maxIterations >= 1
     /\ thrown = "none") =>
    /\ pc = "loop" /\ decisions = 0 => gameEnded = FALSE
    /\ pc \in {"exit", "returned"} =>
         /\ decisions >= 1
         /\ Len(responses) >= 1
         /\ Len(commandsSent) >= 2
    /\ pc = "returned" => (result.gameEnded <=> Matching # {})

\* Witness of C36: the initial text was "You have died", the run played its
\* two turns without a match and returned gameEnded = false.
C36_Witness ==
  /\ pc = "returned"
  /\ thrown = "none"
  /\ GameEnded(initialText)
  /\ maxIterations = 2
  /\ decisions = 2
  /\ Matching = {}
  /\ ~result.gameEnded

(***************************************************************************)
(* Claims about WorkflowRunner.                                            *)
(***************************************************************************)
Started(k) == promises[k].state # "notStarted"

Settled(k) == promises[k].state \in {"fulfilled", "rejected"}

InFlight == {k \in 1..numWorkflows : promises[k].state = "pending"}

\* The result that belongs to workflow k: its name, and the counters its run
\* ended with (those of a failed run when it threw).
OwnResult(k) ==
  IF outcomes[k].threw
    THEN [name |-> k, score |-> 0, moves |-> 0, completed |-> FALSE]
    ELSE [name |-> k, score |-> outcomes[k].score, moves |-> outcomes[k].moves,
          completed |-> outcomes[k].gameEnded]

\* C6: in sequential mode the workflows are started in input order, workflow
\* k + 1 not before workflow k has finished, at most one is in flight, and
\* runAll returns one result per workflow, in input order.
C6_SequentialInOrder ==
  (rpc # "idle" /\ ~parallel) =>
    /\ Cardinality(InFlight) <= 1
    /\ \A n \in 1..Len(startOrder) : startOrder[n] = n
    /\ \A k \in 1..numWorkflows :
         Started(k) => \A j \in 1..(k - 1) : Settled(j)
    /\ rpc = "returned" =>
         /\ Len(returned) = numWorkflows
         /\ Len(startOrder) = numWorkflows
         /\ \A k \in 1..numWorkflows : returned[k] = OwnResult(k)

\* Witness of C6: a sequential run of at least three workflows has returned.
C6_Witness ==
  /\ rpc = "returned"
  /\ ~parallel
  /\ numWorkflows >= 3
  /\ Len(returned) = numWorkflows

\* The zero-based number of the batch of workflow k under the cap.
BatchOf(k) == (k - 1) \div maxConcurrent

\* C7: in parallel mode with a cap 0 < C < number of workflows, the workflows
\* started so far are the first whole batches of C consecutive workflows (the
\* last batch may be smaller), at most C are in flight, and no workflow is
\* started before every workflow of the batches before its own has finished.
C7_BatchesOfCap ==
  (rpc \notin {"idle", "start"} /\ parallel /\ 0 < maxConcurrent
     /\ maxConcurrent < numWorkflows) =>
    /\ Cardinality(InFlight) <= maxConcurrent
    /\ \E b \in 1..numWorkflows :
         {k \in 1..numWorkflows : Started(k)}
           = 1..Min(b * maxConcurrent, numWorkflows)
    /\ \A k \in 1..numWorkflows :
         Started(k) =>
           \A j \in 1..numWorkflows : BatchOf(j) < BatchOf(k) => Settled(j)
    /\ \A n \in 1..Len(startOrder) : startOrder[n] = n

\* Witness of C7: under a cap of 2, one workflow of the first batch has
\* finished while the other is still in flight, and no workflow of the second
\* batch has been started.
C7_Witness ==
  /\ rpc = "batch"
  /\ parallel
  /\ maxConcurrent = 2
  /\ numWorkflows >= 3
  /\ Settled(2)
  /\ promises[1].state = "pending"
  /\ ~Started(3)

\* C8: in parallel mode, with or without a cap, the result at position k of
\* the returned array is the result of workflow k, whatever the order in which
\* the runs ended.
C8_ResultsInInputOrder ==
  (rpc = "returned" /\ parallel) =>
    /\ Len(returned) = numWorkflows
    /\ \A k \in 1..numWorkflows : returned[k] = OwnResult(k)

\* Witness of C8: a parallel run has returned although the second workflow
\* finished first, with counters that differ from those of the first.
C8_Witness ==
  /\ rpc = "returned"
  /\ parallel
  /\ numWorkflows >= 2
  /\ finishOrder[1] = 2
  /\ outcomes[1] # outcomes[2]
  /\ returned[1].name = 1

\* C9: runAll never rejects; when it has returned, every workflow was started
\* once and ran to its end, a workflow whose run threw has the result of a
\* failed run (score 0, moves 0, completed = false), and every other workflow
\* has its own result.
C9_FailureIsIsolated ==
  /\ rpc # "rejected"
  /\ rpc = "returned" =>
       /\ Len(returned) = numWorkflows
       /\ Len(startOrder) = numWorkflows
       /\ \A k \in 1..numWorkflows :
            /\ promises[k].state = "fulfilled"
            /\ \E n \in 1..Len(startOrder) : startOrder[n] = k
            /\ outcomes[k].threw =>
                 /\ returned[k].name = k
                 /\ returned[k].score = 0
                 /\ returned[k].moves = 0
                 /\ returned[k].completed = FALSE
            /\ ~outcomes[k].threw =>
                 /\ returned[k].name = k
                 /\ returned[k].score = outcomes[k].score
                 /\ returned[k].moves = outcomes[k].moves
                 /\ returned[k].completed = outcomes[k].gameEnded

\* Witness of C9: under a cap of 2 the first workflow threw, and its batch
\* sibling and a workflow of the next batch completed their games.
C9_Witness ==
  /\ rpc = "returned"
  /\ parallel
  /\ maxConcurrent = 2
  /\ numWorkflows >= 3
  /\ outcomes[1].threw
  /\ returned[1].completed = FALSE
  /\ returned[2].completed
  /\ returned[3].completed

\* C18: in parallel mode with a cap of 0, or a cap of at least the number of
\* workflows, once runAll has begun every workflow has been started, in input
\* order and before any of them ended, no batch is formed, and runAll has
\* returned only when every workflow has ended.
C18_UnboundedStartsAll ==
  (parallel /\ (maxConcurrent = 0 \/ maxConcurrent >= numWorkflows)
            /\ rpc # "start") =>
    /\ rpc \in {"all", "returned"}
    /\ startOrder = [k \in 1..numWorkflows |-> k]
    /\ \A k \in 1..numWorkflows : Started(k)
    /\ rpc = "returned" =>
         /\ \A k \in 1..numWorkflows : Settled(k)
         /\ Len(returned) = numWorkflows

\* Witness of C18: under a cap of 0 three workflows or more were run, the one
\* started last ended first, and runAll returned.
C18_Witness ==
  /\ parallel
  /\ maxConcurrent = 0
  /\ numWorkflows >= 3
  /\ rpc = "returned"
  /\ finishOrder[1] = numWorkflows
  /\ Len(finishOrder) = numWorkflows

\* C37: when runAll has returned, in either mode and for every maxConcurrent
\* the command line can supply, negative values and NaN included, it returns
\* one result per workflow, and every workflow was run exactly once.
C37_OneResultPerWorkflowForEveryCap ==
  rpc = "returned" =>
    /\ Len(returned) = numWorkflows
    /\ \A k \in 1..numWorkflows :
         Cardinality({n \in 1..Len(startOrder) : startOrder[n] = k}) = 1

(***************************************************************************)
(* Claims about BaseAgent.processMessage.                                  *)
(***************************************************************************)
\* C10: after a processMessage call in which the decision selected the
\* registered tool and the handler and the follow-up generation succeeded, in
\* a dialogue that holds the whole turn, the messages of the turn contain in
\* order the user message, an assistant message for the tool selection, the
\* tool-result message and the assistant message of the final reply, which is
\* what the call returned.
C10_ToolTurnRecordsSelection ==
  (apc = "ready" /\ path = "tool" /\ agentDialogue.limit >= 1 + 4 * MaxCalls) =>
    LET ms == agentDialogue.messages
        first == Len(ms) - Len(turn) + 1
    IN  \E a, b, c, d \in first..Len(ms) :
          /\ a < b /\ b < c /\ c < d
          /\ ms[a] = turn[1]
          /\ ms[b].role = "assistant"
          /\ ms[c].role = "tool"
          /\ ms[d].role = "assistant"
          /\ ms[d].content = reply

\* C21: every tool message of the agent's dialogue comes after an assistant
\* message of the same dialogue that records the invocation of that tool and
\* carries the same correlation id.
C21_ToolMessageAnswersInvocation ==
  LET ms == agentDialogue.messages
  IN  \A k \in 1..Len(ms) :
        ms[k].role = "tool" =>
          \E j \in 1..(k - 1) :
            /\ ms[j].role = "assistant"
            /\ ms[j].toolCallId = ms[k].toolCallId
            /\ ms[j].toolName = ms[k].toolName

\* The messages the dialogue still holds of those the current call appended.
HeldOfTurn ==
  LET ms == agentDialogue.messages
      n == Min(Len(turn), Len(ms))
  IN  SubSeq(ms, Len(ms) - n + 1, Len(ms))

\* The last stored message is the assistant message of the reply.
ReplyIsLastAssistant ==
  LET ms == agentDialogue.messages
  IN  /\ Len(ms) >= 1
      /\ ms[Len(ms)].role = "assistant"
      /\ ms[Len(ms)].content = reply

\* C11: when the decision names a tool that is not registered, the call has
\* returned the "not found" text without raising, that text is the last
\* assistant message, no tool handler ran in the call, and the only
\* generation of the call is the decision itself, whose usage is the only
\* change of the usage counters.
C11_UnknownToolIsReported ==
  (decision \notin {NoDecision, Respond} /\ decision \notin tools) =>
    /\ apc = "ready"
    /\ path = "notFound"
    /\ reply = ToolNotFoundText(decision)
    /\ ReplyIsLastAssistant
    /\ executions = atCall.executions
    /\ generations = atCall.generations + 1
    /\ modelUsage =
         TrackModelUsage(atCall.modelUsage, ModelId, usages[Len(usages)])

\* Witness of C11: an agent with the registered tool "map" was asked for
\* "goal" in its second call, after a first call that ran the handler.
C11_Witness ==
  /\ decision = GoalTool
  /\ tools = {MapTool}
  /\ path = "notFound"
  /\ atCall.executions >= 1
  /\ atCall.generations >= 1

\* C12: when the handler of the selected tool raised, the call has returned
\* the error text without raising, that text is the last assistant message,
\* the call appended no tool message, and the only generation of the call is
\* the decision.
C12_HandlerErrorIsReported ==
  (path = "toolError") =>
    /\ apc = "ready"
    /\ reply = ToolErrorText(tool)
    /\ ReplyIsLastAssistant
    /\ \A k \in 1..Len(HeldOfTurn) : HeldOfTurn[k].role # "tool"
    /\ executions = atCall.executions + 1
    /\ generations = atCall.generations + 1

\* Witness of C12: the handler of "map" raised in a call on a dialogue that
\* holds the whole turn.
C12_Witness ==
  /\ path = "toolError"
  /\ tool = MapTool
  /\ agentDialogue.limit >= 3
  /\ Len(HeldOfTurn) = 2

\* C25: when the decision of an agent with registered tools is "respond", the
\* call has ended with the decision as its only generation and without a
\* tool handler call; it appended, after the user message, one assistant
\* message, whose content is the generated text and the returned reply.
C25_RespondReturnsTextVerbatim ==
  (decision = Respond) =>
    /\ apc = "ready"
    /\ path = "respond"
    /\ tools # {}
    /\ generations = atCall.generations + 1
    /\ executions = atCall.executions
    /\ reply \in GeneratedTexts
    /\ turn = <<turn[1], Message("assistant", reply)>>
    /\ turn[1].role = "user"
    /\ ReplyIsLastAssistant

\* Witness of C25: the second call of an agent with the registered tool "map"
\* ended with a direct response, after a first call that ran the handler.
C25_Witness ==
  /\ decision = Respond
  /\ tools = {MapTool}
  /\ reply = TextWest
  /\ atCall.executions >= 1
  /\ agentDialogue.limit >= 3

\* C13: every processMessage call that has ended returned a reply, which is
\* the last assistant message: no generation failure, unknown tool or handler
\* failure left the call as an exception.
C13_NoErrorReachesCaller ==
  (apc = "ready" /\ calls > 0) =>
    /\ path \in {"text", "respond", "tool", "notFound", "toolError"}
    /\ ReplyIsLastAssistant

\* The sum of the usages a sequence of generation calls reported.
RECURSIVE SumUsages(_)
SumUsages(us) ==
  IF us = <<>>
    THEN [promptTokens |-> 0, completionTokens |-> 0, totalTokens |-> 0]
    ELSE LET rest == SumUsages(SubSeq(us, 1, Len(us) - 1))
             u == us[Len(us)]
         IN  [promptTokens |-> rest.promptTokens + u.promptTokens,
              completionTokens |-> rest.completionTokens + u.completionTokens,
              totalTokens |-> rest.totalTokens + u.totalTokens]

\* The counters of the model, zero when it has no entry yet.
UsageOf(mu) == IF ModelId \in DOMAIN mu THEN mu[ModelId] ELSE SumUsages(<<>>)

\* C14: a step in which a generation call returns adds the counts it reported
\* to the counters of the model, every other step leaves the counters as they
\* are, and the counters are at all times the sum of what the generation calls
\* reported: they never decrease and are never replaced or reset.
C14_UsageAccumulates ==
  [][/\ Len(usages') = Len(usages) + 1 =>
          UsageOf(modelUsage') =
            SumUsages(<<UsageOf(modelUsage), usages'[Len(usages')]>>)
     /\ Len(usages') = Len(usages) => modelUsage' = modelUsage
     /\ UsageOf(modelUsage').promptTokens >= UsageOf(modelUsage).promptTokens
     /\ UsageOf(modelUsage').completionTokens >= UsageOf(modelUsage).completionTokens
     /\ UsageOf(modelUsage').totalTokens >= UsageOf(modelUsage).totalTokens
     /\ UsageOf(modelUsage') = SumUsages(usages')]_vars

\* Witness of C14: a decision, a follow-up and a later call reported different
\* usages, and the counters hold their sum.
C14_Witness ==
  /\ Len(usages) >= 3
  /\ usages[1] # usages[2]
  /\ path = "tool"
  /\ calls = 2
  /\ UsageOf(modelUsage) = SumUsages(usages)

\* C34: whenever a processMessage call has returned a string, on the path
\* without tools, of a direct response, of an unknown tool, of a failed
\* handler or of a tool result, and the dialogue has a capacity of at least 1,
\* the last message of the dialogue is an assistant message whose content is
\* the returned string, which is also the last message the call appended.
C34_ReplyIsLastMessage ==
  (apc = "ready" /\ path \in {"text", "respond", "notFound", "toolError", "tool"}
     /\ agentDialogue.limit >= 1) =>
    /\ ReplyIsLastAssistant
    /\ turn[Len(turn)] = Message("assistant", reply)
    /\ Len(agentDialogue.messages) <= agentDialogue.limit

\* Witness of C34: a call that ran the handler of "map" returned the
\* follow-up text on a dialogue of capacity 1, which holds nothing else.
C34_Witness ==
  /\ apc = "ready"
  /\ path = "tool"
  /\ agentDialogue.limit = 1
  /\ reply = TextWest
  /\ agentDialogue.messages = <<Message("assistant", TextWest)>>

\* The number of messages appended to the dialogue after the system prompt:
\* one per call, one per generation that returned, and one per handler call,
\* less the decision whose handler call has not ended.
AppendedAfterSystem == calls + generations - (IF apc = "execute" THEN 1 ELSE 0)

SystemMessages ==
  {k \in 1..Len(agentDialogue.messages) : agentDialogue.messages[k].role = "system"}

\* C35: the system prompt is the only message of the dialogue at
\* construction; it stays the first message while fewer messages than the
\* capacity were appended after it, and from then on the dialogue, which is
\* what every generation call is given, holds no system message.
C35_SystemPromptIsEvicted ==
  /\ calls = 0 =>
       agentDialogue.messages = <<Message("system", SystemPrompt)>>
  /\ IF AppendedAfterSystem < agentDialogue.limit
       THEN /\ SystemMessages = {1}
            /\ agentDialogue.messages[1] = Message("system", SystemPrompt)
            /\ Len(agentDialogue.messages) = 1 + AppendedAfterSystem
       ELSE SystemMessages = {}

\* Witness of C35: the second call of an agent of capacity 3 requests its
\* generation on a dialogue without the system prompt.
C35_Witness ==
  /\ apc \in {"generateText", "generateObject"}
  /\ calls = 2
  /\ agentDialogue.limit = 3
  /\ AppendedAfterSystem = 3
  /\ SystemMessages = {}
  /\ Len(agentDialogue.messages) = 3

(***************************************************************************)
(* Claims about AgentOrchestrator.                                         *)
(***************************************************************************)
\* The component-wise sum of what the agents of a set have accrued.
RECURSIVE SumAccrued(_, _)
SumAccrued(acc, as) ==
  IF as = {}
    THEN NoUsage
    ELSE LET a == CHOOSE x \in as : TRUE
         IN  SumUsages(<<SumAccrued(acc, as \ {a}), acc[a]>>)

\* C15: every getTotalTokenUsage() call returns, component by component, what
\* the orchestrator itself has accrued plus the sum of what each of its child
\* agents has accrued at the time of the call.
C15_TotalIsOwnPlusChildren ==
  [][queries' = queries + 1 =>
       queried' = SumUsages(<<accrued'[Orchestrator],
                              SumAccrued(accrued', Children)>>)]_vars

\* Witness of C15: a first query saw the game agent at {10,20,30}; the memory
\* agent then accrued {5,5,10}, and the next query returned {15,25,40}.
C15_Witness ==
  /\ queries = 2
  /\ accrued["game"] = [promptTokens |-> 10, completionTokens |-> 20, totalTokens |-> 30]
  /\ accrued["memory"] = [promptTokens |-> 5, completionTokens |-> 5, totalTokens |-> 10]
  /\ \A a \in Agents \ {"game", "memory"} : accrued[a] = NoUsage
  /\ previous = [promptTokens |-> 10, completionTokens |-> 20, totalTokens |-> 30]
  /\ queried = [promptTokens |-> 15, completionTokens |-> 25, totalTokens |-> 40]

(***************************************************************************)
(* Claims about the summary of runWorkflows.                               *)
(***************************************************************************)
\* The positions of the results whose denominator, the field den, is not
\* zero.
NonZero(den) == {k \in 1..Len(mresults) : mresults[k][den] # 0}

\* No result of a non-zero denominator has a higher ratio than sel.
HighestRatio(sel, den) ==
  \A k \in NonZero(den) :
    mresults[k].score * sel[den] <= sel.score * mresults[k][den]

\* sel is one of the results; its denominator is zero only if every
\* denominator is, and otherwise its ratio is the highest of the results of a
\* non-zero denominator.
SkipsZero(sel, den) ==
  /\ sel.index \in 1..Len(mresults)
  /\ sel = mresults[sel.index]
  /\ sel[den] = 0 => NonZero(den) = {}
  /\ NonZero(den) # {} => sel.index \in NonZero(den) /\ HighestRatio(sel, den)

DenMoves == "moves"

DenTokens == "totalTokens"

DenCost == "estimatedCost"

\* C19: each of the three ratio reductions selects a result of a zero
\* denominator only if every result has a zero denominator, and otherwise a
\* result with the highest ratio among those of a non-zero denominator.
C19_RatiosSkipZero ==
  (mpc = "summarised") =>
    /\ SkipsZero(mostEfficient, DenMoves)
    /\ SkipsZero(mostTokenEfficient, DenTokens)
    /\ SkipsZero(mostCostEfficient, DenCost)

\* Witness of C19: the first result has no moves but tokens, the second has
\* moves but no tokens: the second is the most efficient by moves and the
\* first by tokens; no result has a cost, and the first is selected.
C19_Witness ==
  /\ mpc = "summarised"
  /\ Len(mresults) >= 2
  /\ mresults[1].moves = 0 /\ mresults[1].score > 0
  /\ mresults[2].moves # 0
  /\ mresults[1].totalTokens # 0
  /\ mresults[2].totalTokens = 0
  /\ \A k \in 1..Len(mresults) : mresults[k].estimatedCost = 0
  /\ mostEfficient.index = 2
  /\ mostTokenEfficient.index = 1
  /\ mostCostEfficient.index = 1

\* The smallest of a non-empty set of positions.
First(ks) == CHOOSE k \in ks : \A j \in ks : k <= j

\* The positions of the results of a non-zero denominator whose ratio is the
\* highest.
BestRatios(den) ==
  {k \in NonZero(den) : HighestRatio(mresults[k], den)}

\* C20: each of the five reductions selects, among the results that attain
\* its best value, the one of the smallest position in the list.
C20_FirstWins ==
  (mpc = "summarised") =>
    LET ks == 1..Len(mresults)
    IN  /\ bestByScore.index =
             First({k \in ks : \A j \in ks : mresults[j].score <= mresults[k].score})
        /\ fastest.index =
             First({k \in ks : \A j \in ks :
                      mresults[k].executionTimeMs <= mresults[j].executionTimeMs})
        /\ NonZero(DenMoves) # {} =>
             mostEfficient.index = First(BestRatios(DenMoves))
        /\ NonZero(DenTokens) # {} =>
             mostTokenEfficient.index = First(BestRatios(DenTokens))
        /\ NonZero(DenCost) # {} =>
             mostCostEfficient.index = First(BestRatios(DenCost))

\* Witness of C20: two results of the same elapsed time, tokens and cost, the
\* second with twice the score in twice the moves: the score selects the
\* second, and every other reduction, being tied, the first.
C20_Witness ==
  /\ mpc = "summarised"
  /\ Len(mresults) >= 2
  /\ mresults[1].score = 10 /\ mresults[1].moves = 5
  /\ mresults[2].score = 20 /\ mresults[2].moves = 10
  /\ mresults[1].executionTimeMs = mresults[2].executionTimeMs
  /\ bestByScore.index = 2
  /\ mostEfficient.index = 1
  /\ fastest.index = 1

(***************************************************************************)
(* Claims about calculateCost and calculateTotalCost.                      *)
(***************************************************************************)
\* The usage of twice the tokens.
TwiceUsage(u) ==
  [promptTokens |-> 2 * u.promptTokens,
   completionTokens |-> 2 * u.completionTokens,
   totalTokens |-> 2 * u.totalTokens]

\* Exactly twice a number.
TwiceFloat(x) == IF x.m = 0 THEN x ELSE [m |-> x.m, e |-> x.e + 1]

\* The cost of an entry of the usage map.
EntryCost(entry) == CalculateCost(entry.modelName, entry.usage, NoPricing)

\* C22: under the same prices the cost of twice the prompt and completion
\* tokens is exactly twice the cost, and the total cost is the sum of the
\* costs of the models of the usage map.
C22_CostIsLinear ==
  /\ cpc = "costed" =>
       CalculateCost(costed.modelName, TwiceUsage(costed.usage), costed.customPricing)
         = TwiceFloat(costed.cost)
  /\ cpc = "totalled" =>
       totalCost =
         CASE Len(costUsage) = 0 -> FloatZero
           [] Len(costUsage) = 1 -> EntryCost(costUsage[1])
           [] Len(costUsage) = 2 ->
                FloatPlus(EntryCost(costUsage[2]), EntryCost(costUsage[1]))

\* Witness of C22: a cost was computed from prices that are not binary
\* fractions, for token counts whose two parts round differently.
C22_Witness ==
  /\ cpc = "costed"
  /\ costed.modelName = MiniModelId
  /\ ~costed.customPricing.given
  /\ costed.usage.promptTokens = 7
  /\ costed.usage.completionTokens = 3
  /\ costed.cost.m # 0

\* C26: whenever a gameLoop of the AgentBasedWorkflow returns, the total usage
\* the workflow reports is the aggregated usage of its orchestrator: the
\* usage of each generation call is counted once.
C26_WorkflowUsageIsOrchestratorTotal ==
  [][workflowUsage' # workflowUsage
       => GetTotalUsage(workflowUsage') = GetTotalTokenUsage(usageOf')]_vars

(***************************************************************************)
(* Claims about the elapsed times of runAll().                             *)
(***************************************************************************)
RECURSIVE SumTimes(_, _)
SumTimes(ts, n) == IF n = 0 THEN 0 ELSE ts[n] + SumTimes(ts, n - 1)

\* C23: in sequential mode the elapsed time runWorkflows measures around
\* runAll() is at least the sum of the elapsed times the workflows' results
\* carry, each measured by runWorkflow from before the run call to after its
\* return or failure.
C23_SequentialTotalCoversSum ==
  (tpc = "returned" /\ ~timedParallel)
    => totalTime >= SumTimes(executionTimeMs, Len(executionTimeMs))

\* C23 witness: a sequential runAll() of three workflows has returned.
C23_Witness ==
  /\ tpc = "returned"
  /\ ~timedParallel
  /\ Len(durations) = 3
  /\ \A k \in 1..3 : executionTimeMs[k] = durations[k]
  /\ totalTime = SumTimes(executionTimeMs, 3) + waited

CeilDiv(n, c) == (n + c - 1) \div c

\* The duration all the workflows share, or NoTime.
EqualDuration ==
  IF \A k \in 1..Len(durations) : durations[k] = durations[1]
    THEN durations[1] ELSE NoTime

\* C24: n workflows whose runs take the same time d: with a cap C, 0 < C < n,
\* the parallel runAll() takes ceil(n / C) times d, and the sequential runAll()
\* takes n times d, not counting the ticks during which no run was under way.
C24_RoundsOfEqualRuns ==
  (tpc = "returned" /\ EqualDuration # NoTime) =>
    LET n == Len(durations)
        d == EqualDuration
        C == timedMaxConcurrent
    IN  /\ (timedParallel /\ 0 < C /\ C < n)
             => totalTime - waited = CeilDiv(n, C) * d
        /\ ~timedParallel => totalTime - waited = n * d

\* C24 witness: three workflows of duration 2 under a cap of 2 took two rounds.
C24_Witness ==
  /\ tpc = "returned"
  /\ timedParallel
  /\ timedMaxConcurrent = 2
  /\ durations = <<2, 2, 2>>
  /\ totalTime - waited = 4

(***************************************************************************)
(* Claims about SimpleAIAgent.run().                                       *)
(***************************************************************************)
\* The last generateText call failed with a retryable error of status 429.
RateLimited == lastError.api /\ lastError.isRetryable /\ lastError.statusCode = 429

\* The seconds the error suggests to wait: those of its retry-after header,
\* or 15 without one.
SuggestedSeconds ==
  CASE ~lastError.retryAfter.given -> 15
    [] lastError.retryAfter.value = <<"2">> -> 2
    [] lastError.retryAfter.value = <<"3", "0">> -> 30

\* What a step of run() does about the error of the last call.
RetryStep ==
  /\ (spc = "generateText" /\ lastError' # NoError) =>
       IF RateLimited'
         THEN /\ spc' = "setTimeout"
              /\ delayMs' = 1000 * SuggestedSeconds'
              /\ ended' = "none"
         ELSE /\ spc' = "returned"
              /\ ended' = "error"
  /\ (spc = "setTimeout") => (spc' = "loop" /\ RateLimited')
  /\ (spc = "loop" /\ RateLimited) =>
       IF ~gameOver /\ attempts < agentMaxIterations
         THEN spc' = "generateText" /\ attempts' = attempts + 1
         ELSE spc' = "returned" /\ ended' = "loop"
  /\ (spc = "returned") => (attempts' = attempts)

BudgetStep ==
  /\ gameOver => gameOver'
  /\ (gameOver /\ spc = "loop") => (attempts' = attempts /\ spc' = "returned")
  /\ attempts' # attempts =>
       /\ attempts' = attempts + 1
       /\ iterationCount' = iterationCount + 1
       /\ iterationCount < agentMaxIterations
  /\ spc = "setTimeout" => iterationCount' = iterationCount

\* C39: run() makes at most maxIterations generation attempts, each of them
\* one iteration of the budget, the rate-limited ones included; gameOver is
\* never cleared and stops the loop; and every run ends by returning, from
\* the loop or from the catch block that logs the error, never by throwing.
C39_RunResolvesWithinBudget ==
  /\ [](attempts = iterationCount /\ attempts <= agentMaxIterations)
  /\ [](spc = "returned" => ended \in {"loop", "error"})
  /\ [][BudgetStep]_vars
  /\ <>[](spc = "returned")

\* Witness of C39: every attempt of a budget of three was rate-limited, and
\* run() returned from the loop without the game being over.
C39_Witness ==
  /\ spc = "returned"
  /\ ended = "loop"
  /\ agentMaxIterations = 3
  /\ attempts = 3
  /\ ~gameOver
  /\ lastError # NoError
  /\ IsRetried(LastErrorOf(lastError))

(***************************************************************************)
(* Claims about runAgents.                                                 *)
(***************************************************************************)
\* C38: for every maxConcurrent that is not negative, 0 included, runAgents
\* returns in the end, every agent's run() was then called exactly once and
\* has resolved, and never more than maxConcurrent agents run at a time.
C38_RunAgentsTerminates ==
  /\ <>(gpc = "returned")
  /\ [](gpc = "returned" =>
          \A k \in 1..numAgents : runCount[k] = 1 /\ agentRun[k] = "resolved")
  /\ [](Cardinality({k \in 1..numAgents : agentRun[k] = "running"})
          <= agentsMaxConcurrent)

(***************************************************************************)
(* Claims about AgentRunner.run.                                           *)
(***************************************************************************)
\* C31: a result of run() has completed = true only when the autonomous loop
\* stopped because the game had ended, and it has completed = false when the
\* loop stopped because maxIterations was reached.
C31_CompletedOnlyWhenGameEnded ==
  agentResult.returned =>
    /\ agentResult.completed => stoppedBy = "gameEnded"
    /\ (~interactive /\ stoppedBy = "maxIterations") => ~agentResult.completed

(***************************************************************************)
(* Claims about MemoryAgent.addMemory.                                     *)
(***************************************************************************)
Held == {memories[k] : k \in 1..Len(memories)}

\* C40: after every addMemory the agent holds at most maxMemories entries,
\* each once; the entry just added is held or was removed by the call; and an
\* entry the call removed is not more important than any entry still held.
C40_EvictsLeastImportant ==
  /\ Len(memories) <= maxMemories
  /\ Cardinality(Held) = Len(memories)
  /\ memoryCounter > 0 => lastAdded \in Held \cup lastEvicted
  /\ Cardinality(lastEvicted) <= 1
  /\ \A e \in lastEvicted : \A r \in Held : e.importance <= r.importance

\* Witness of C40: a full agent of two entries was given a less important
\* one, which the same call removed.
C40_Witness ==
  /\ maxMemories = 2
  /\ Len(memories) = 2
  /\ lastEvicted = {lastAdded}
  /\ \A r \in Held : lastAdded.importance < r.importance

(***************************************************************************)
(* Claims about the objects of the runs of a WorkflowRunner.               *)
(***************************************************************************)
\* C29: the runs of one WorkflowRunner share no mutable state: every Dialogue
\* object is appended to by one run, every session the game API created
\* receives the commands of one run, every run works on a workflow object of
\* its own that is none of the caller's, and the caller's workflow objects
\* stay as they were constructed.
C29_RunsShareNoState ==
  /\ \A d \in DOMAIN dialogueUsers : Cardinality(dialogueUsers[d]) <= 1
  /\ \A sid \in DOMAIN sessionUsers \ {Undefined} : Cardinality(sessionUsers[sid]) <= 1
  /\ \A j \in DOMAIN runs :
       runs[j].instance # Undefined =>
         /\ \A k \in DOMAIN runs \ {j} : runs[k].instance # runs[j].instance
         /\ \A k \in DOMAIN given : given[k] # runs[j].instance
  /\ \A k \in DOMAIN given : heap[given[k]] = NewWorkflow(Undefined)

\* Witness of C29: the caller gave the same workflow object twice, and both
\* runs have played a turn, each under a session of its own.
C29_Witness ==
  /\ given = <<1, 1>>
  /\ \A k \in 1..2 :
       /\ runs[k].pc = "returned"
       /\ runs[k].sessionId # Undefined
       /\ heap[runs[k].instance].tracked = 1
       /\ dialogueUsers[runs[k].dialogue] = {k}
  /\ runs[1].sessionId # runs[2].sessionId
====
